---- MODULE Spec2Model ----
(***************************************************************************)
(* Model of the market-alert alerting engine: the legacy monitor            *)
(* (runMonitor), the multi-indicator monitor (runMultiIndicatorMonitor)     *)
(* and the two alert ledgers (tables alerts and alerts_new).                *)
(*                                                                         *)
(* Numbers: percentages are carried as integers in units of 1e-4 (0.02 is   *)
(* 200), timestamps are milliseconds.  An idempotency key is carried as the *)
(* tuple of the values that the source formats into the key string.        *)
(***************************************************************************)
EXTENDS Integers, Sequences, FiniteSets, TLC

(* ------------------------------ bounds --------------------------------- *)
\* invocations started in one behaviour, and market steps (candle closes)
MaxInvocations == 3
MaxWindow == 4
\* statements issued against one ledger table by the racing writers
MaxWrites == 4
\* the deployment's MAX_RETRIES
MaxRetries == 2
\* candles in a sequence handed to the window builder
MaxKlines == 3
\* the largest change and threshold, in hundredths of a percent, handed to
\* shouldTriggerAlert
MaxPercent == 4
\* the last attempt of sendWebhook that a retry can follow
MaxAttempt == 3
\* Math.random() is drawn from the multiples of 1 / RandomSteps in [0, 1)
RandomSteps == 4

(* ------------------------- program constants --------------------------- *)
DEFAULT_THRESHOLD_PERCENT == 200
DEFAULT_COOLDOWN_MINUTES == 10

\* a missing string is NULL; a nullable number is <<>> (null) or <<value>>
NULL == "null"
NONE == <<>>
Some(value) == <<value>>
\* value ?? fallback
Coalesce(value, fallback) == IF value = NONE THEN fallback ELSE value[1]

\* the two entry points that call the monitors: the scheduled handler and
\* the POST /trigger route; cronMulti is the multi-indicator task that the
\* scheduled handler runs beside its runMonitor call
Callers == {"cron", "manual", "cronMulti"}

\* rows of table symbols are looked up by name; names in ORDER BY symbol ASC
SymbolOrder == <<"BTCUSDT", "ETHUSDT", "XRPUSDT">>

(* ------------------------ the candle source ---------------------------- *)
\* closeTime of the latest candle at market step n: T0, T0+9m59s, T0+10m,
\* T0+10m1s, then one more 9m59s step per further window.
WindowEndAt(n) ==
  CASE n = 1 -> 300000
    [] n = 2 -> 899000
    [] n = 3 -> 900000
    [] n = 4 -> 901000
    [] OTHER -> 901000 + (n - 4) * 599000

ChangePercents == {100, -250}

(* --------------------------- pure helpers ------------------------------ *)
Abs(x) == IF x < 0 THEN -x ELSE x

normalizeSymbol(value) ==
  CASE value = "btcusdt" -> "BTCUSDT"
    [] value = "ethusdt" -> "ETHUSDT"
    [] OTHER -> value

getDirection(changePercent) == IF changePercent >= 0 THEN "UP" ELSE "DOWN"

(* numbers that are quotients are kept exact, as fractions in lowest terms
   with a positive denominator *)
RECURSIVE GCD(_, _)
GCD(a, b) == IF b = 0 THEN a ELSE GCD(b, a % b)

Ratio(n, d) ==
  LET g == GCD(Abs(n), Abs(d))
      sign == IF d < 0 THEN -1 ELSE 1
  IN [num |-> (sign * n) \div g, den |-> (sign * d) \div g]

Zero == [num |-> 0, den |-> 1]

\* what a division by 0 gives: Infinity, -Infinity, and NaN for 0 / 0
Infinity == [num |-> 1, den |-> 0]
NegInfinity == [num |-> -1, den |-> 0]
NaN == [num |-> 0, den |-> 0]

\* n / d
Divide(n, d) ==
  IF d # 0 THEN Ratio(n, d)
  ELSE IF n > 0 THEN Infinity ELSE IF n < 0 THEN NegInfinity ELSE NaN

\* x * k for an integer k > 0
Scale(x, k) == IF x.den = 0 THEN x ELSE Ratio(x.num * k, x.den)

\* Math.abs(x)
MathAbs(x) == [num |-> Abs(x.num), den |-> x.den]

\* the number n
Number(n) == [num |-> n, den |-> 1]

IsNaN(x) == x.num = 0 /\ x.den = 0

\* x < y; every comparison with NaN is false
Less(x, y) ==
  /\ ~IsNaN(x)
  /\ ~IsNaN(y)
  /\ IF x.den = 0 /\ y.den = 0 THEN x.num < y.num
     ELSE x.num * y.den < y.num * x.den

LessEq_Strict(x, y) == Less(x, y)

\* x <= y
LessEq(x, y) == ~IsNaN(x) /\ ~IsNaN(y) /\ ~Less(y, x)

\* x - y
Minus(x, y) ==
  IF IsNaN(x) \/ IsNaN(y) THEN NaN
  ELSE IF x.den = 0 /\ y.den = 0 THEN (IF x.num = y.num THEN NaN ELSE x)
  ELSE IF x.den = 0 THEN x
  ELSE IF y.den = 0 THEN [num |-> 0 - y.num, den |-> 0]
  ELSE Ratio(x.num * y.den - y.num * x.den, x.den * y.den)

calculatePercentChange_Reversed(previous, current) ==
  IF previous = 0 THEN Zero ELSE Ratio(previous - current, previous)

\* previous === 0 ? 0 : (current - previous) / previous
calculatePercentChange(previous, current) ==
  IF previous = 0 THEN Zero ELSE Ratio(current - previous, previous)

\* enhancedKlinesToPriceWindow(klines): null below two candles, else the
\* window of the last candle against the one before it
enhancedKlinesToPriceWindow(klines) ==
  IF Len(klines) < 2 THEN NONE
  ELSE LET previous == klines[Len(klines) - 1]
           current == klines[Len(klines)]
       IN Some([previousClose |-> previous.close,
                currentClose |-> current.close,
                priceChange |-> current.close - previous.close,
                priceChangePercent |-> calculatePercentChange(previous.close, current.close)])

shouldTriggerAlert_Always(changePercent, thresholdPercent) == TRUE

shouldTriggerAlert_RawThreshold(changePercent, thresholdPercent) ==
  Abs(changePercent) >= thresholdPercent

shouldTriggerAlert(changePercent, thresholdPercent) ==
  Abs(changePercent) >= Abs(thresholdPercent)

\* the base price check, then the volume / RSI / Bollinger filters, whose
\* verdict on the fetched candles is carried as filtersPass
shouldTriggerAlertWithIndicators(changePercent, thresholdPercent, filtersPass) ==
  IF ~shouldTriggerAlert(changePercent, thresholdPercent) THEN FALSE
  ELSE filtersPass

isWithinCooldown_NonStrict(lastWindowEnd, nextWindowEnd, cooldownMinutes) ==
  IF lastWindowEnd = 0 THEN FALSE
  ELSE nextWindowEnd - lastWindowEnd <= cooldownMinutes * 60 * 1000

\* (!lastWindowEnd: the callers pass a row's window_end, which is NOT NULL,
\* so the only falsy value is 0)
isWithinCooldown(lastWindowEnd, nextWindowEnd, cooldownMinutes) ==
  IF lastWindowEnd = 0 THEN FALSE
  ELSE nextWindowEnd - lastWindowEnd < cooldownMinutes * 60 * 1000

\* sha256Hex of "symbol:windowEnd:thresholdPercent"; the tuple stands for
\* the formatted string, the digest is taken to be collision free
generateIdempotencyKey(symbol, windowEnd, thresholdPercent) ==
  <<symbol, windowEnd, thresholdPercent>>

(* ----------------------------- the ledger ------------------------------ *)
findAlertByIdempotency_None(table, key) == {}

findAlertByIdempotency_SkippedUnseen(table, key) ==
  {r \in table : r.idempotency_key = key /\ r.status # "SKIPPED"}

findAlertByIdempotency_SentOnly(table, key) ==
  {r \in table : r.idempotency_key = key /\ r.status = "SENT"}

\* SELECT * FROM alerts WHERE idempotency_key = ?   (the set of matches)
findAlertByIdempotency(table, key) == {r \in table : r.idempotency_key = key}

getLatestAlertForSymbol_Oldest(table, symbol) ==
  {r \in table : r.symbol = symbol
                 /\ \A o \in table : o.symbol = symbol => o.window_end >= r.window_end}

\* SELECT * FROM alerts WHERE symbol = ? ORDER BY window_end DESC LIMIT 1
\* (the candidates for the first row; they all carry the same window_end)
getLatestAlertForSymbol(table, symbol) ==
  {r \in table : r.symbol = symbol
                 /\ \A o \in table : o.symbol = symbol => o.window_end <= r.window_end}

insertOrReplace_NoDelete(table, id, data) ==
  table \cup {[data EXCEPT !.id = id]}

\* INSERT OR REPLACE under UNIQUE(idempotency_key): the conflicting row is
\* deleted, the new row gets a fresh AUTOINCREMENT id
insertOrReplace(table, id, data) ==
  {r \in table : r.idempotency_key # data.idempotency_key} \cup {[data EXCEPT !.id = id]}

AlertRow(symbol, changePercent, windowEnd, key, status, responseCode) ==
  [id |-> 0, symbol |-> symbol, change_percent |-> changePercent,
   direction |-> getDirection(changePercent), window_end |-> windowEnd,
   idempotency_key |-> key, status |-> status, response_code |-> responseCode]

(* ------------------------------- state --------------------------------- *)
VARIABLES
  symbols,        \* table symbols: name -> [enabled, threshold_percent, cooldown_minutes]
  alerts,         \* table alerts (legacy ledger): a set of rows
  nextAlertId,    \* AUTOINCREMENT of alerts
  alertsNew,      \* table alerts_new (multi-indicator ledger)
  nextAlertNewId, \* AUTOINCREMENT of alerts_new
  marketStep,     \* which candle is the latest one at the candle source
  sent,           \* the POSTs the webhook endpoint has answered
  started,        \* invocations started so far
  pc,             \* per caller: where its invocation is suspended
  opts,           \* per caller: MonitorOptions of its invocation
  queue,          \* per caller: symbol records still to process (head = current)
  cur,            \* per caller: locals of the current loop iteration
  results,        \* per caller: the results array built so far
  calc            \* a pure function under evaluation: its arguments and its value

vars == <<symbols, alerts, nextAlertId, alertsNew, nextAlertNewId, marketStep,
          sent, started, pc, opts, queue, cur, results, calc>>

NoCur == [symbol |-> NULL]
NoOpts == [symbols |-> <<>>, useTechnicalIndicators |-> TRUE]
NoCalc == [fn |-> NULL]

(* ----------------------- symbol resolution ----------------------------- *)
Dedup_None(list, seen) == list

RECURSIVE Dedup(_, _)
\* Array.from(new Set(list)): first occurrences, in insertion order
Dedup(list, seen) ==
  IF list = <<>> THEN <<>>
  ELSE IF Head(list) \in seen THEN Dedup(Tail(list), seen)
  ELSE <<Head(list)>> \o Dedup(Tail(list), seen \cup {Head(list)})

MapNormalize_AsGiven(list) == list

RECURSIVE MapNormalize(_)
MapNormalize(list) ==
  IF list = <<>> THEN <<>>
  ELSE <<normalizeSymbol(Head(list))>> \o MapNormalize(Tail(list))

\* SELECT * FROM symbols WHERE symbol = ?  (upper-cased); the set of matches
getSymbol(table, symbol) ==
  IF normalizeSymbol(symbol) \in DOMAIN table
  THEN {[symbol |-> normalizeSymbol(symbol)] @@ table[normalizeSymbol(symbol)]}
  ELSE {}

RECURSIVE EnabledFrom(_, _)
EnabledFrom(table, names) ==
  IF names = <<>> THEN <<>>
  ELSE IF Head(names) \in DOMAIN table /\ table[Head(names)].enabled = 1
       THEN <<CHOOSE r \in getSymbol(table, Head(names)) : TRUE>> \o EnabledFrom(table, Tail(names))
       ELSE EnabledFrom(table, Tail(names))

\* SELECT * FROM symbols WHERE enabled = 1 ORDER BY symbol ASC
getEnabledSymbols(table) == EnabledFrom(table, SymbolOrder)

SkippedResult_Failed(symbol, reason) ==
  [symbol |-> symbol, status |-> "FAILED", triggered |-> FALSE,
   changePercent |-> NONE, windowEnd |-> NONE, reason |-> reason]

SkippedResult(symbol, reason) ==
  [symbol |-> symbol, status |-> "SKIPPED", triggered |-> FALSE,
   changePercent |-> NONE, windowEnd |-> NONE, reason |-> reason]

RECURSIVE ResolveFound_Disabled(_, _)
ResolveFound_Disabled(table, unique) ==
  IF unique = <<>> THEN <<>>
  ELSE LET record == getSymbol(table, Head(unique)) IN
       IF record = {}
       THEN ResolveFound_Disabled(table, Tail(unique))
       ELSE <<CHOOSE r \in record : TRUE>> \o ResolveFound_Disabled(table, Tail(unique))

RECURSIVE ResolveFound(_, _)
ResolveFound(table, unique) ==
  IF unique = <<>> THEN <<>>
  ELSE LET record == getSymbol(table, Head(unique)) IN
       IF record = {} \/ \E r \in record : r.enabled # 1
       THEN ResolveFound(table, Tail(unique))
       ELSE <<CHOOSE r \in record : TRUE>> \o ResolveFound(table, Tail(unique))

RECURSIVE ResolveSkipped(_, _)
ResolveSkipped(table, unique) ==
  IF unique = <<>> THEN <<>>
  ELSE LET record == getSymbol(table, Head(unique)) IN
       IF record = {}
       THEN <<SkippedResult(Head(unique), "symbol_not_found")>> \o ResolveSkipped(table, Tail(unique))
       ELSE IF \E r \in record : r.enabled # 1
       THEN <<SkippedResult(Head(unique), "symbol_disabled")>> \o ResolveSkipped(table, Tail(unique))
       ELSE ResolveSkipped(table, Tail(unique))

resolveSymbols(table, requested) ==
  IF requested = <<>>
  THEN [symbols |-> getEnabledSymbols(table), skipped |-> <<>>]
  ELSE LET unique == Dedup(MapNormalize(requested), {}) IN
       [symbols |-> ResolveFound(table, unique), skipped |-> ResolveSkipped(table, unique)]

(* ------------------------- runMonitor (legacy) ------------------------- *)
\* bodies a manual POST /trigger may carry (symbols <<>>: the field is omitted)
ManualOptions ==
  {[symbols |-> <<>>, useTechnicalIndicators |-> FALSE],
   [symbols |-> <<"btcusdt", "DOGEUSDT", "BTCUSDT", "XRPUSDT">>, useTechnicalIndicators |-> TRUE]}

WebhookResults ==
  {[success |-> TRUE, status |-> Some(200)], [success |-> FALSE, status |-> Some(500)]}

Result_StatusBlind(symbol, status, triggered, changePercent, windowEnd, reason) ==
  [symbol |-> symbol, status |-> status, triggered |-> status # "SKIPPED",
   changePercent |-> changePercent, windowEnd |-> windowEnd, reason |-> reason]

Result(symbol, status, triggered, changePercent, windowEnd, reason) ==
  [symbol |-> symbol, status |-> status, triggered |-> triggered,
   changePercent |-> changePercent, windowEnd |-> windowEnd, reason |-> reason]

\* results.push(entry); continue   (or the end of the loop body)
Advance(c, entry) ==
  /\ results' = [results EXCEPT ![c] = Append(@, entry)]
  /\ queue' = [queue EXCEPT ![c] = Tail(@)]
  /\ cur' = [cur EXCEPT ![c] = NoCur]
  /\ pc' = [pc EXCEPT ![c] = IF Len(queue[c]) = 1 THEN "done" ELSE "fetch"]

CatchSymbolFailed_Skipped(c) ==
  Advance(c, SkippedResult(normalizeSymbol(Head(queue[c]).symbol), "enhanced_fetch_error"))

\* catch (error): the symbol is reported FAILED and the loop goes on
CatchSymbolFailed(c) ==
  Advance(c, Result(normalizeSymbol(Head(queue[c]).symbol), "FAILED", FALSE, NONE, NONE,
                    "enhanced_fetch_error"))

NoneRunning == \A c \in Callers : pc[c] = "idle"

\* runMonitor up to its first candle fetch: settings, options, resolveSymbols
StartMonitor(c, requested, useTech) ==
  /\ pc[c] = "idle"
  /\ started < MaxInvocations
  /\ started' = started + 1
  /\ opts' = [opts EXCEPT ![c] = [symbols |-> requested, useTechnicalIndicators |-> useTech]]
  /\ LET r == resolveSymbols(symbols, requested) IN
       /\ queue' = [queue EXCEPT ![c] = r.symbols]
       /\ results' = [results EXCEPT ![c] = r.skipped]
       /\ pc' = [pc EXCEPT ![c] = IF r.symbols = <<>> THEN "done" ELSE "fetch"]
  /\ cur' = [cur EXCEPT ![c] = NoCur]
  /\ UNCHANGED <<calc, symbols, alerts, nextAlertId, alertsNew, nextAlertNewId, marketStep, sent>>

\* scheduled(): runMonitor(env), no options
CronStart == StartMonitor("cron", <<>>, TRUE)

\* POST /trigger: runMonitor(c.env, options)
ManualStart ==
  \E options \in ManualOptions :
    StartMonitor("manual", options.symbols, options.useTechnicalIndicators)

\* return results: the array goes to the caller and the invocation is over
Return(c) ==
  /\ pc[c] = "done"
  /\ pc' = [pc EXCEPT ![c] = "idle"]
  /\ results' = [results EXCEPT ![c] = <<>>]
  /\ opts' = [opts EXCEPT ![c] = NoOpts]
  /\ UNCHANGED <<calc, symbols, alerts, nextAlertId, alertsNew, nextAlertNewId, marketStep,
                 sent, started, queue, cur>>

\* await fetchEnhancedKlines(...) throws
FetchFails(c) ==
  /\ pc[c] = "fetch"
  /\ CatchSymbolFailed(c)
  /\ UNCHANGED <<calc, symbols, alerts, nextAlertId, alertsNew, nextAlertNewId, marketStep,
                 sent, started, opts>>

\* fewer than 2 candles: createEnhancedPriceWindow / enhancedKlinesToPriceWindow give null
FetchInsufficient(c) ==
  /\ pc[c] = "fetch"
  /\ Advance(c, SkippedResult(normalizeSymbol(Head(queue[c]).symbol), "insufficient_data"))
  /\ UNCHANGED <<calc, symbols, alerts, nextAlertId, alertsNew, nextAlertNewId, marketStep,
                 sent, started, opts>>

\* the candles arrive: window, trigger decision, idempotency key
FetchWindow(c) ==
  /\ pc[c] = "fetch"
  /\ \E changePercent \in ChangePercents, filtersPass \in BOOLEAN :
       LET symbol == Head(queue[c])
           symbolValue == normalizeSymbol(symbol.symbol)
           thresholdPercent == Coalesce(symbol.threshold_percent, DEFAULT_THRESHOLD_PERCENT)
           cooldownMinutes == Coalesce(symbol.cooldown_minutes, DEFAULT_COOLDOWN_MINUTES)
           useTech == opts[c].useTechnicalIndicators
           windowEnd == WindowEndAt(marketStep)
           shouldTrigger == IF useTech
                            THEN shouldTriggerAlertWithIndicators(changePercent, thresholdPercent, filtersPass)
                            ELSE shouldTriggerAlert(changePercent, thresholdPercent)
       IN /\ (~useTech => filtersPass)
          /\ IF ~shouldTrigger
             THEN Advance(c, Result(symbolValue, "SKIPPED", FALSE, Some(changePercent), Some(windowEnd),
                                    IF useTech THEN "below_threshold_or_filters" ELSE "below_threshold"))
             ELSE /\ cur' = [cur EXCEPT ![c] =
                       [symbol |-> symbolValue, changePercent |-> changePercent,
                        windowEnd |-> windowEnd, cooldownMinutes |-> cooldownMinutes,
                        idempotencyKey |-> generateIdempotencyKey(symbolValue, windowEnd, thresholdPercent)]]
                  /\ pc' = [pc EXCEPT ![c] = "find"]
                  /\ UNCHANGED <<queue, results>>
  /\ UNCHANGED <<calc, symbols, alerts, nextAlertId, alertsNew, nextAlertNewId, marketStep,
                 sent, started, opts>>

\* await findAlertByIdempotency(...): the duplicate branch, or on to the cooldown
FindExisting(c) ==
  /\ pc[c] = "find"
  /\ LET existing == findAlertByIdempotency(alerts, cur[c].idempotencyKey) IN
       IF existing # {}
       THEN \E e \in existing :
              Advance(c, Result(cur[c].symbol, e.status, e.status = "SENT",
                                Some(e.change_percent), Some(e.window_end), "duplicate"))
       ELSE /\ pc' = [pc EXCEPT ![c] = "latest"]
            /\ UNCHANGED <<queue, results, cur>>
  /\ UNCHANGED <<calc, symbols, alerts, nextAlertId, alertsNew, nextAlertNewId, marketStep,
                 sent, started, opts>>

\* await getLatestAlertForSymbol(...) and the cooldown test on its window_end
CheckCooldown(c) ==
  /\ pc[c] = "latest"
  /\ LET latestAlert == getLatestAlertForSymbol(alerts, cur[c].symbol) IN
       pc' = [pc EXCEPT ![c] =
                IF /\ latestAlert # {}
                   /\ \E l \in latestAlert :
                        isWithinCooldown(l.window_end, cur[c].windowEnd, cur[c].cooldownMinutes)
                THEN "recordSkipped" ELSE "send"]
  /\ UNCHANGED <<calc, symbols, alerts, nextAlertId, alertsNew, nextAlertNewId, marketStep,
                 sent, started, opts, queue, cur, results>>

\* recordAlert: the INSERT OR REPLACE statement and the AUTOINCREMENT counter
recordAlert_NotAwaited(c, status, responseCode) ==
  UNCHANGED <<alerts, nextAlertId>>

recordAlert(c, status, responseCode) ==
  /\ alerts' = insertOrReplace(alerts, nextAlertId,
                  AlertRow(cur[c].symbol, cur[c].changePercent, cur[c].windowEnd,
                           cur[c].idempotencyKey, status, responseCode))
  /\ nextAlertId' = nextAlertId + 1

\* await recordAlert(... status: "SKIPPED", responseBody: "cooldown_active")
RecordSkipped(c) ==
  /\ pc[c] = "recordSkipped"
  /\ recordAlert(c, "SKIPPED", NONE)
  /\ Advance(c, Result(cur[c].symbol, "SKIPPED", FALSE, Some(cur[c].changePercent),
                       Some(cur[c].windowEnd), "cooldown_active"))
  /\ UNCHANGED <<calc, symbols, alertsNew, nextAlertNewId, marketStep, sent, started, opts>>

\* how many sendWebhook calls the endpoint has seen for a key
Deliveries(key) == Cardinality({d \in sent : d.key = key})

\* await sendWebhook(...): the endpoint has seen the POSTs, the result is back
SendWebhook(c) ==
  /\ pc[c] = "send"
  /\ \E webhookResult \in WebhookResults :
       /\ sent' = sent \cup {[key |-> cur[c].idempotencyKey,
                              nth |-> Deliveries(cur[c].idempotencyKey) + 1,
                              success |-> webhookResult.success]}
       /\ cur' = [cur EXCEPT ![c] = @ @@ [webhookResult |-> webhookResult]]
  /\ pc' = [pc EXCEPT ![c] = "record"]
  /\ UNCHANGED <<calc, symbols, alerts, nextAlertId, alertsNew, nextAlertNewId, marketStep,
                 started, opts, queue, results>>

RecordDelivery_Early(c) ==
  /\ pc[c] \in {"send", "record"}
  /\ LET success == pc[c] = "record" /\ cur[c].webhookResult.success
         status == IF success THEN "SENT" ELSE "FAILED"
     IN /\ recordAlert(c, status, NONE)
        /\ Advance(c, Result(cur[c].symbol, status, success, Some(cur[c].changePercent),
                             Some(cur[c].windowEnd),
                             IF success THEN NULL ELSE "webhook_failed"))
  /\ UNCHANGED <<calc, symbols, alertsNew, nextAlertNewId, marketStep, sent, started, opts>>

\* await recordAlert(... status ...) after the delivery, then the result entry
RecordDelivery(c) ==
  /\ pc[c] = "record"
  /\ LET webhookResult == cur[c].webhookResult
         status == IF webhookResult.success THEN "SENT" ELSE "FAILED"
     IN /\ recordAlert(c, status, webhookResult.status)
        /\ Advance(c, Result(cur[c].symbol, status, webhookResult.success, Some(cur[c].changePercent),
                             Some(cur[c].windowEnd),
                             IF webhookResult.success THEN NULL ELSE "webhook_failed"))
  /\ UNCHANGED <<calc, symbols, alertsNew, nextAlertNewId, marketStep, sent, started, opts>>

\* a ledger statement of the current iteration throws (D1 error): catch block
LedgerFails(c) ==
  /\ pc[c] \in {"find", "latest", "recordSkipped", "record"}
  /\ CatchSymbolFailed(c)
  /\ UNCHANGED <<calc, symbols, alerts, nextAlertId, alertsNew, nextAlertNewId, marketStep,
                 sent, started, opts>>

(* ------------------------------ sendWebhook --------------------------- *)
maxRetries_OneMore == MaxRetries + 1

\* env.maxRetries (an integer from 1 up)
maxRetries == MaxRetries

Response(status) == [status |-> Some(status), error |-> NONE]
Rejected(message) == [status |-> NONE, error |-> Some(message)]
\* a response whose status arrived and whose body read (response.text()) rejected
BodyFailed(status, message) == [status |-> Some(status), error |-> Some(message)]

\* what one POST comes to: a response, fetch rejecting (transport error, or
\* the AbortController firing after timeoutMs), or the body read rejecting
PostOutcomes ==
  {Response(200), Response(404), Response(502),
   Rejected("fetch failed"), Rejected("The operation was aborted"),
   BodyFailed(200, "The operation was aborted")}

\* the try block reached its response.ok test and the test passed
ResponseOk(outcome) ==
  outcome.error = NONE /\ outcome.status # NONE /\ outcome.status[1] \in 200..299

\* new Error(`Webhook responded with status ${response.status}`).message
StatusError(status) ==
  CASE status = 404 -> "Webhook responded with status 404"
    [] status = 502 -> "Webhook responded with status 502"
    [] OTHER -> "Webhook responded with status"

shouldRetry_Never(status, error) == FALSE

shouldRetry(status, error) ==
  IF error # NONE THEN TRUE
  ELSE IF status = NONE THEN FALSE
  ELSE status[1] >= 500

WebhookSuccess_FirstAttempt(status, attempt) ==
  [success |-> TRUE, status |-> status, attempts |-> 1, error |-> NONE]

\* the result returned from inside the loop on response.ok
WebhookSuccess(status, attempt) ==
  [success |-> TRUE, status |-> status, attempts |-> attempt, error |-> NONE]

WebhookFailure_NoError(lastStatus, attempt, lastError) ==
  [success |-> FALSE, status |-> lastStatus, attempts |-> attempt, error |-> NONE]

\* the result returned after the loop
WebhookFailure(lastStatus, attempt, lastError) ==
  [success |-> FALSE, status |-> lastStatus, attempts |-> attempt,
   error |-> IF lastError # NONE THEN lastError ELSE Some("Unknown error")]

\* env.webhookHmacSecret (a string of at least 8 characters)
webhookHmacSecret == "super-secret-key"

\* the payload object of the trigger in hand, as its fields in insertion order
Payload(c) ==
  <<<<"symbol", cur[c].symbol>>,
    <<"change_percent", ToString(cur[c].changePercent)>>,
    <<"direction", getDirection(cur[c].changePercent)>>,
    <<"window_end", ToString(cur[c].windowEnd)>>>>

RECURSIVE Members(_)
\* "key":value of each field, comma separated
Members(fields) ==
  IF fields = <<>> THEN <<>>
  ELSE <<Head(fields)[1], ":", Head(fields)[2]>>
       \o (IF Tail(fields) = <<>> THEN <<>> ELSE <<",">> \o Members(Tail(fields)))

\* JSON.stringify(payload), as the sequence of its tokens
Stringify(payload) == <<"{">> \o Members(payload) \o <<"}">>

\* crypto.subtle.sign("HMAC", key, data) / createHmac("sha256", secret): the
\* platform's HMAC-SHA256, a function of the key and the message
HmacSha256(secret, message) == <<"HMAC-SHA256", secret, message>>

\* the lowercase hex rendering of a byte string
toHex(bytes) == <<"hex", bytes>>

hmacSha256Hex(secret, payload) == toHex(HmacSha256(secret, payload))

WebhookRequest_SignsPayloadHead(c) ==
  [body |-> Stringify(Payload(c)),
   signature |-> hmacSha256Hex(webhookHmacSecret, Stringify(<<Head(Payload(c))>>))]

\* body and x-signature header of the call's POSTs, both computed before the loop
WebhookRequest(c) ==
  LET body == Stringify(Payload(c)) IN
  [body |-> body, signature |-> hmacSha256Hex(webhookHmacSecret, body)]

\* attempt, lastStatus and lastError of the sendWebhook call in progress
LoopVars(c) ==
  IF "attempt" \in DOMAIN cur[c]
  THEN [attempt |-> cur[c].attempt, lastStatus |-> cur[c].lastStatus,
        lastError |-> cur[c].lastError]
  ELSE [attempt |-> 0, lastStatus |-> NONE, lastError |-> NONE]

\* one iteration of sendWebhook's while loop inside runMonitor's await: the
\* POST, its outcome, and either the return or the wait before the next one
WebhookAttempt(c) ==
  /\ pc[c] = "send"
  /\ LoopVars(c).attempt < maxRetries
  /\ \E outcome \in PostOutcomes :
       LET attempt == LoopVars(c).attempt + 1
           lastStatus == IF outcome.status # NONE THEN outcome.status ELSE LoopVars(c).lastStatus
           lastError == IF outcome.error # NONE THEN outcome.error
                        ELSE Some(StatusError(outcome.status[1]))
       IN /\ sent' = sent \cup {[key |-> cur[c].idempotencyKey,
                                  nth |-> Deliveries(cur[c].idempotencyKey) + 1,
                                  success |-> ResponseOk(outcome),
                                  outcome |-> outcome,
                                  body |-> WebhookRequest(c).body,
                                  signature |-> WebhookRequest(c).signature]}
          /\ IF ResponseOk(outcome)
             THEN /\ cur' = [cur EXCEPT ![c] =
                       [webhookResult |-> WebhookSuccess(outcome.status, attempt)] @@ @]
                  /\ pc' = [pc EXCEPT ![c] = "record"]
             ELSE IF attempt < maxRetries /\ shouldRetry(lastStatus, lastError)
             THEN /\ cur' = [cur EXCEPT ![c] =
                       [attempt |-> attempt, lastStatus |-> lastStatus,
                        lastError |-> lastError] @@ @]
                  /\ UNCHANGED pc
             ELSE /\ cur' = [cur EXCEPT ![c] =
                       [webhookResult |-> WebhookFailure(lastStatus, attempt, lastError)] @@ @]
                  /\ pc' = [pc EXCEPT ![c] = "record"]
  /\ UNCHANGED <<calc, symbols, alerts, nextAlertId, alertsNew, nextAlertNewId, marketStep,
                 started, opts, queue, results>>

\* the candle source closes a candle: a later window end is the latest one
MarketTick ==
  /\ marketStep < MaxWindow
  /\ marketStep' = marketStep + 1
  /\ UNCHANGED <<calc, symbols, alerts, nextAlertId, alertsNew, nextAlertNewId, sent, started,
                 pc, opts, queue, cur, results>>

MonitorStep(c) ==
  \/ FetchFails(c)
  \/ FetchInsufficient(c)
  \/ FetchWindow(c)
  \/ FindExisting(c)
  \/ CheckCooldown(c)
  \/ RecordSkipped(c)
  \/ SendWebhook(c)
  \/ RecordDelivery(c)
  \/ Return(c)

\* runMonitor with the sendWebhook call taken one POST at a time
MonitorStepByPost(c) ==
  \/ FetchFails(c)
  \/ FetchInsufficient(c)
  \/ FetchWindow(c)
  \/ FindExisting(c)
  \/ CheckCooldown(c)
  \/ RecordSkipped(c)
  \/ WebhookAttempt(c)
  \/ RecordDelivery(c)
  \/ Return(c)

(* ------------------ runMultiIndicatorMonitor --------------------------- *)
\* the D1 binding that every repo function takes as its first argument
D1 == "D1Database"

\* rows of symbol_indicators joined with indicator_types, enabled and active,
\* in ORDER BY si.symbol, si.indicator_type_id
SymbolIndicators ==
  <<[symbol |-> "BTCUSDT", indicatorType |-> "price_change_percent",
     threshold_value |-> 2, threshold_operator |-> ">=", cooldown_minutes |-> Some(5)],
    [symbol |-> "BTCUSDT", indicatorType |-> "volume_surge",
     threshold_value |-> 3, threshold_operator |-> ">", cooldown_minutes |-> NONE],
    [symbol |-> "ETHUSDT", indicatorType |-> "price_change_percent",
     threshold_value |-> 2, threshold_operator |-> ">=", cooldown_minutes |-> Some(5)],
    [symbol |-> "XRPUSDT", indicatorType |-> "price_change_percent",
     threshold_value |-> 2, threshold_operator |-> ">=", cooldown_minutes |-> NONE]>>

\* the indicatorType object getSymbolIndicators attaches to a row: columns of
\* indicator_types only (id, name, display_name, description, unit,
\* is_active, created_at), of which the model keeps the name
IndicatorTypeObject(row) == [name |-> row.indicatorType]

\* object.field, undefined when the object has no such field
Property(object, field) == IF field \in DOMAIN object THEN object[field] ELSE NONE

RECURSIVE SelectConfigs(_, _)
\* getSymbolIndicators(db, symbol): the configs of one symbol, in table order
SelectConfigs(configs, symbol) ==
  IF configs = <<>> THEN <<>>
  ELSE IF Head(configs).symbol = symbol
       THEN <<Head(configs)>> \o SelectConfigs(Tail(configs), symbol)
       ELSE SelectConfigs(Tail(configs), symbol)

getSymbolIndicators(symbol) == SelectConfigs(SymbolIndicators, symbol)

RECURSIVE ConfigSymbols(_)
ConfigSymbols(configs) ==
  IF configs = <<>> THEN <<>> ELSE <<Head(configs).symbol>> \o ConfigSymbols(Tail(configs))

\* `${symbol}-${indicatorType}-${windowEnd}-${thresholdValue}-${operator}`
generateMultiIdempotencyKey(symbol, indicatorType, windowEnd, thresholdValue, operator) ==
  <<symbol, indicatorType, windowEnd, thresholdValue, operator>>

\* SELECT * FROM alerts_new WHERE idempotency_key = ?
findAlertNewByIdempotency(table, key) == {r \in table : r.idempotency_key = key}

\* getLatestAlertNewForSymbol(db, symbol, indicatorType?): db.prepare(...) on
\* anything but the D1 binding throws a TypeError
getLatestAlertNewForSymbol(db, symbol, indicatorType) ==
  IF db # D1 THEN [threw |-> TRUE, rows |-> {}]
  ELSE LET match == {r \in alertsNew :
                       /\ r.symbol = normalizeSymbol(symbol)
                       /\ (indicatorType # NULL => r.indicator_name = indicatorType)}
       IN [threw |-> FALSE,
           rows |-> {r \in match : \A o \in match : o.window_end <= r.window_end}]

\* MultiIndicatorMonitor.checkCooldown; its lookup is written
\* getLatestAlertNewForSymbol(symbol, indicatorType): the db argument is
\* missing, so symbol lands in db and indicatorType in symbol
checkCooldown(symbol, indicatorType, windowEnd, cooldownMinutes) ==
  IF cooldownMinutes = 0 THEN [threw |-> FALSE, value |-> FALSE]
  ELSE LET latestAlert == getLatestAlertNewForSymbol(symbol, indicatorType, NULL) IN
       IF latestAlert.threw THEN [threw |-> TRUE, value |-> FALSE]
       ELSE IF latestAlert.rows = {} THEN [threw |-> FALSE, value |-> FALSE]
       ELSE [threw |-> FALSE,
             value |-> \E l \in latestAlert.rows :
                         windowEnd - l.window_end < cooldownMinutes * 60 * 1000]

insertAlertNew_Blind(table, id, data) ==
  [ok |-> TRUE, table |-> table \cup {[data EXCEPT !.id = id]}]

\* plain INSERT under UNIQUE(idempotency_key): a conflicting key is an error
\* and the table is left as it was
insertAlertNew(table, id, data) ==
  IF \E r \in table : r.idempotency_key = data.idempotency_key
  THEN [ok |-> FALSE, table |-> table]
  ELSE [ok |-> TRUE, table |-> table \cup {[data EXCEPT !.id = id]}]

AlertNewRow(symbol, indicatorType, thresholdValue, windowEnd, key, status, responseCode) ==
  [id |-> 0, symbol |-> normalizeSymbol(symbol), indicator_name |-> indicatorType,
   threshold_value |-> thresholdValue, window_end |-> windowEnd,
   idempotency_key |-> key, status |-> status, response_code |-> responseCode]

MultiResult(symbol, indicatorType, status, triggered, windowEnd, reason) ==
  [symbol |-> symbol, indicatorType |-> indicatorType, status |-> status,
   triggered |-> triggered, windowEnd |-> windowEnd, reason |-> reason]

RECURSIVE MultiSkipped(_, _)
MultiSkipped(table, names) ==
  IF names = <<>> THEN <<>>
  ELSE LET record == getSymbol(table, Head(names)) IN
       IF record = {}
       THEN <<MultiResult(Head(names), "N/A", "SKIPPED", FALSE, NONE, "symbol_not_found")>>
            \o MultiSkipped(table, Tail(names))
       ELSE IF \E r \in record : r.enabled # 1
       THEN <<MultiResult(Head(names), "N/A", "SKIPPED", FALSE, NONE, "symbol_disabled")>>
            \o MultiSkipped(table, Tail(names))
       ELSE MultiSkipped(table, Tail(names))

resolveSymbolsForMultiIndicators(table, requested) ==
  LET names == IF requested = <<>>
               THEN Dedup(ConfigSymbols(SymbolIndicators), {})
               ELSE Dedup(MapNormalize(requested), {})
  IN [symbols |-> ResolveFound(table, names), skipped |-> MultiSkipped(table, names)]

RECURSIVE SubSeqBy(_, _, _)
\* the entries of list whose position is in keep, in list order
SubSeqBy(list, keep, n) ==
  IF list = <<>> THEN <<>>
  ELSE IF n \in keep THEN <<Head(list)>> \o SubSeqBy(Tail(list), keep, n + 1)
       ELSE SubSeqBy(Tail(list), keep, n + 1)

\* the next symbol of the for loop, or the end of the run
MultiNextSymbol(c, entries) ==
  /\ results' = [results EXCEPT ![c] = @ \o entries]
  /\ queue' = [queue EXCEPT ![c] = Tail(@)]
  /\ cur' = [cur EXCEPT ![c] = NoCur]
  /\ pc' = [pc EXCEPT ![c] = IF Len(queue[c]) = 1 THEN "done" ELSE "m_fetch"]

MultiCatch_StopsAll(c) ==
  /\ results' = [d \in Callers |->
        IF d = c
        THEN Append(results[c], MultiResult(Head(queue[c]).symbol, "N/A", "FAILED", FALSE, NONE,
                                            "monitor_error"))
        ELSE results[d]]
  /\ queue' = [d \in Callers |-> IF d = c THEN Tail(queue[c]) ELSE <<>>]
  /\ cur' = [d \in Callers |-> NoCur]
  /\ pc' = [d \in Callers |->
        IF d = c THEN (IF Len(queue[c]) = 1 THEN "done" ELSE "m_fetch")
        ELSE IF pc[d] = "idle" THEN "idle" ELSE "done"]

MultiCatch_Abort(c) ==
  /\ results' = [results EXCEPT ![c] =
        Append(@, MultiResult(Head(queue[c]).symbol, "N/A", "FAILED", FALSE, NONE, "monitor_error"))]
  /\ queue' = [queue EXCEPT ![c] = <<>>]
  /\ cur' = [cur EXCEPT ![c] = NoCur]
  /\ pc' = [pc EXCEPT ![c] = "done"]

\* catch (error): one FAILED entry for the symbol, its other triggers are dropped
MultiCatch(c) ==
  MultiNextSymbol(c, <<MultiResult(Head(queue[c]).symbol, "N/A", "FAILED", FALSE, NONE,
                                   "monitor_error")>>)

\* results.push(entry); continue   in the loop over the triggers
MultiNextTrigger(c, entry) ==
  IF Len(cur[c].triggers) = 1
  THEN MultiNextSymbol(c, <<entry>>)
  ELSE /\ results' = [results EXCEPT ![c] = Append(@, entry)]
       /\ cur' = [cur EXCEPT ![c] = [symbol |-> @.symbol, windowEnd |-> @.windowEnd,
                                     cooldownMinutes |-> @.cooldownMinutes,
                                     triggers |-> Tail(@.triggers)]]
       /\ pc' = [pc EXCEPT ![c] = "m_cooldown"]
       /\ UNCHANGED queue

Trigger(c) == Head(cur[c].triggers)

\* trigger.indicatorType.cooldown_minutes ?? symbol.cooldown_minutes ?? DEFAULT_COOLDOWN_MINUTES
TriggerCooldownMinutes(c) ==
  Coalesce(Property(IndicatorTypeObject(Trigger(c)), "cooldown_minutes"), cur[c].cooldownMinutes)

TriggerKey(c) ==
  generateMultiIdempotencyKey(cur[c].symbol, Trigger(c).indicatorType, cur[c].windowEnd,
                              Trigger(c).threshold_value, Trigger(c).threshold_operator)

\* runMultiIndicatorMonitor up to its first candle fetch
StartMulti(c, requested) ==
  /\ pc[c] = "idle"
  /\ started < MaxInvocations
  /\ started' = started + 1
  /\ opts' = [opts EXCEPT ![c] = [symbols |-> requested, useTechnicalIndicators |-> TRUE]]
  /\ LET r == resolveSymbolsForMultiIndicators(symbols, requested) IN
       /\ queue' = [queue EXCEPT ![c] = r.symbols]
       /\ results' = [results EXCEPT ![c] = r.skipped]
       /\ pc' = [pc EXCEPT ![c] = IF r.symbols = <<>> THEN "done" ELSE "m_fetch"]
  /\ cur' = [cur EXCEPT ![c] = NoCur]
  /\ UNCHANGED <<calc, symbols, alerts, nextAlertId, alertsNew, nextAlertNewId, marketStep, sent>>

\* scheduled(): runMultiIndicatorMonitor(env, {useMultiIndicators: true})
CronStartMulti == StartMulti("cron", <<>>)

\* POST /trigger with useMultiIndicators
ManualStartMulti ==
  \E options \in ManualOptions : StartMulti("manual", options.symbols)

MultiFetchFails(c) ==
  /\ pc[c] = "m_fetch"
  /\ MultiCatch(c)
  /\ UNCHANGED <<calc, symbols, alerts, nextAlertId, alertsNew, nextAlertNewId, marketStep,
                 sent, started, opts>>

MultiFetchInsufficient(c) ==
  /\ pc[c] = "m_fetch"
  /\ MultiNextSymbol(c, <<MultiResult(Head(queue[c]).symbol, "N/A", "SKIPPED", FALSE, NONE,
                                      "insufficient_data")>>)
  /\ UNCHANGED <<calc, symbols, alerts, nextAlertId, alertsNew, nextAlertNewId, marketStep,
                 sent, started, opts>>

\* the candles arrive: analyzeMarket, then checkAlertTriggers keeps, in config
\* order, the configs whose condition holds on these candles
MultiFetchAnalysis(c) ==
  /\ pc[c] = "m_fetch"
  /\ LET symbol == Head(queue[c])
         configs == getSymbolIndicators(symbol.symbol)
         windowEnd == WindowEndAt(marketStep) - 299999
     IN \E triggered \in SUBSET (1..Len(configs)) :
          LET triggers == SubSeqBy(configs, triggered, 1) IN
          IF triggers = <<>>
          THEN MultiNextSymbol(c, <<MultiResult(symbol.symbol, "ALL", "SKIPPED", FALSE,
                                                Some(windowEnd), "no_triggers")>>)
          ELSE /\ cur' = [cur EXCEPT ![c] =
                    [symbol |-> symbol.symbol, windowEnd |-> windowEnd,
                     cooldownMinutes |-> Coalesce(symbol.cooldown_minutes, DEFAULT_COOLDOWN_MINUTES),
                     triggers |-> triggers]]
               /\ pc' = [pc EXCEPT ![c] = "m_cooldown"]
               /\ UNCHANGED <<queue, results>>
  /\ UNCHANGED <<calc, symbols, alerts, nextAlertId, alertsNew, nextAlertNewId, marketStep,
                 sent, started, opts>>

\* createAlertRecord -> createAlertNew: the INSERT, which throws on a key conflict
createAlertRecord(c, status, responseCode) ==
  insertAlertNew(alertsNew, nextAlertNewId,
                 AlertNewRow(cur[c].symbol, Trigger(c).indicatorType, Trigger(c).threshold_value,
                             cur[c].windowEnd, TriggerKey(c), status, responseCode))

\* await monitor.checkCooldown(...), and on inCooldown the SKIPPED record
MultiCheckCooldown(c) ==
  /\ pc[c] \in {"m_cooldown", "m_recordSkipped"}
  /\ IF pc[c] = "m_cooldown"
     THEN LET inCooldown == checkCooldown(cur[c].symbol, Trigger(c).indicatorType,
                                          cur[c].windowEnd, TriggerCooldownMinutes(c))
          IN IF inCooldown.threw
             THEN MultiCatch(c) /\ UNCHANGED <<alertsNew, nextAlertNewId>>
             ELSE /\ pc' = [pc EXCEPT ![c] = IF inCooldown.value THEN "m_recordSkipped"
                                             ELSE "m_find"]
                  /\ UNCHANGED <<queue, cur, results, alertsNew, nextAlertNewId>>
     ELSE LET written == createAlertRecord(c, "SKIPPED", NONE) IN
          IF written.ok
          THEN /\ alertsNew' = written.table
               /\ nextAlertNewId' = nextAlertNewId + 1
               /\ MultiNextTrigger(c, MultiResult(cur[c].symbol, Trigger(c).indicatorType,
                                                  "SKIPPED", FALSE, Some(cur[c].windowEnd),
                                                  "cooldown_active"))
          ELSE MultiCatch(c) /\ UNCHANGED <<alertsNew, nextAlertNewId>>
  /\ UNCHANGED <<calc, symbols, alerts, nextAlertId, marketStep, sent, started, opts>>

\* await findAlertNewByIdempotency(...)
MultiFindExisting(c) ==
  /\ pc[c] = "m_find"
  /\ LET existingAlert == findAlertNewByIdempotency(alertsNew, TriggerKey(c)) IN
       IF existingAlert # {}
       THEN \E e \in existingAlert :
              MultiNextTrigger(c, MultiResult(cur[c].symbol, Trigger(c).indicatorType, e.status,
                                              e.status = "SENT", Some(cur[c].windowEnd),
                                              "duplicate"))
       ELSE /\ pc' = [pc EXCEPT ![c] = "m_send"]
            /\ UNCHANGED <<queue, cur, results>>
  /\ UNCHANGED <<calc, symbols, alerts, nextAlertId, alertsNew, nextAlertNewId, marketStep,
                 sent, started, opts>>

\* await sendWebhook(...)
MultiSendWebhook(c) ==
  /\ pc[c] = "m_send"
  /\ \E webhookResult \in WebhookResults :
       /\ sent' = sent \cup {[key |-> TriggerKey(c), nth |-> Deliveries(TriggerKey(c)) + 1,
                              success |-> webhookResult.success]}
       /\ cur' = [cur EXCEPT ![c] = @ @@ [webhookResult |-> webhookResult]]
  /\ pc' = [pc EXCEPT ![c] = "m_record"]
  /\ UNCHANGED <<calc, symbols, alerts, nextAlertId, alertsNew, nextAlertNewId, marketStep,
                 started, opts, queue, results>>

\* await monitor.createAlertRecord(... status ...), then the result entry
MultiRecordDelivery(c) ==
  /\ pc[c] = "m_record"
  /\ LET webhookResult == cur[c].webhookResult
         status == IF webhookResult.success THEN "SENT" ELSE "FAILED"
         written == createAlertRecord(c, status, webhookResult.status)
     IN IF written.ok
        THEN /\ alertsNew' = written.table
             /\ nextAlertNewId' = nextAlertNewId + 1
             /\ MultiNextTrigger(c, MultiResult(cur[c].symbol, Trigger(c).indicatorType, status,
                                                webhookResult.success, Some(cur[c].windowEnd),
                                                IF webhookResult.success THEN NULL
                                                ELSE "webhook_failed"))
        ELSE MultiCatch(c) /\ UNCHANGED <<alertsNew, nextAlertNewId>>
  /\ UNCHANGED <<calc, symbols, alerts, nextAlertId, marketStep, sent, started, opts>>

\* a D1 statement of the current trigger throws (lookup or insert): the
\* per-symbol catch block
MultiLedgerFails(c) ==
  /\ pc[c] \in {"m_find", "m_record"}
  /\ MultiCatch(c)
  /\ UNCHANGED <<calc, symbols, alerts, nextAlertId, alertsNew, nextAlertNewId, marketStep,
                 sent, started, opts>>

MultiStep(c) ==
  \/ MultiFetchFails(c)
  \/ MultiFetchInsufficient(c)
  \/ MultiFetchAnalysis(c)
  \/ MultiCheckCooldown(c)
  \/ MultiFindExisting(c)
  \/ MultiSendWebhook(c)
  \/ MultiRecordDelivery(c)
  \/ Return(c)

\* the operator edits ETHUSDT's cooldown (PUT on the symbol: updateSymbol);
\* the route accepts whole minutes from 1 up
UpdateSymbolCooldown ==
  /\ NoneRunning
  /\ \E s \in {"ETHUSDT"}, minutes \in {1, DEFAULT_COOLDOWN_MINUTES} :
       /\ symbols[s].cooldown_minutes # Some(minutes)
       /\ symbols' = [symbols EXCEPT ![s].cooldown_minutes = Some(minutes)]
  /\ UNCHANGED <<calc, alerts, nextAlertId, alertsNew, nextAlertNewId, marketStep, sent,
                 started, pc, opts, queue, cur, results>>

(* --------------------------- specifications ---------------------------- *)
\* the operator-managed symbols table: BTCUSDT on the defaults, ETHUSDT with
\* its own threshold and a one minute cooldown, XRPUSDT disabled
SymbolTable ==
  [s \in {"BTCUSDT", "ETHUSDT", "XRPUSDT"} |->
      CASE s = "BTCUSDT" -> [enabled |-> 1, threshold_percent |-> NONE, cooldown_minutes |-> NONE]
        [] s = "ETHUSDT" -> [enabled |-> 1, threshold_percent |-> Some(150), cooldown_minutes |-> Some(1)]
        [] OTHER -> [enabled |-> 0, threshold_percent |-> NONE, cooldown_minutes |-> NONE]]

\* the same table while the operator has ETHUSDT switched off
SymbolTableOne ==
  [SymbolTable EXCEPT !["ETHUSDT"].enabled = 0]

\* the same table with ETHUSDT's cooldown_minutes column set to 0 in the
\* database itself (the column is a plain nullable INTEGER; the symbol routes
\* accept 1 and up)
SymbolTableNoCooldown ==
  [SymbolTable EXCEPT !["ETHUSDT"].cooldown_minutes = Some(0)]

\* the database, the candle source and the endpoint before the first invocation
ProgramInit(table) ==
  /\ symbols = table
  /\ alerts = {}
  /\ nextAlertId = 1
  /\ alertsNew = {}
  /\ nextAlertNewId = 1
  /\ marketStep = 1
  /\ sent = {}
  /\ started = 0
  /\ pc = [c \in Callers |-> "idle"]
  /\ opts = [c \in Callers |-> NoOpts]
  /\ queue = [c \in Callers |-> <<>>]
  /\ cur = [c \in Callers |-> NoCur]
  /\ results = [c \in Callers |-> <<>>]

InitWith(table) == ProgramInit(table) /\ calc = NoCalc

ProgramVars == <<symbols, alerts, nextAlertId, alertsNew, nextAlertNewId, marketStep,
                 sent, started, pc, opts, queue, cur, results>>

\* a call f(arguments) about to be made
Call(fn, arguments) == [fn |-> fn, arguments |-> arguments, returned |-> FALSE, value |-> NONE]

\* the call returns value
Returns(fn, value) ==
  /\ calc.fn = fn
  /\ ~calc.returned
  /\ calc' = [calc EXCEPT !.returned = TRUE, !.value = Some(value)]
  /\ UNCHANGED ProgramVars

Returned(fn) == calc.fn = fn /\ calc.returned

\* the value the call returned
Value == calc.value[1]

Init == InitWith(SymbolTable)

\* non-overlapping invocations of runMonitor, every ledger statement succeeds
NextSeq ==
  \/ (NoneRunning /\ CronStart)
  \/ (NoneRunning /\ ManualStart)
  \/ \E c \in Callers : MonitorStep(c)
  \/ MarketTick

Spec == Init /\ [][NextSeq]_vars

\* the cron tick and the manual trigger may overlap
NextConc ==
  \/ CronStart
  \/ ManualStart
  \/ \E c \in Callers : MonitorStep(c)
  \/ MarketTick

SpecConc == InitWith(SymbolTableOne) /\ [][NextConc]_vars

\* non-overlapping invocations, ledger statements may throw
NextFault ==
  \/ NextSeq
  \/ \E c \in Callers : LedgerFails(c)

SpecFault == Init /\ [][NextFault]_vars

\* non-overlapping invocations of runMonitor, every POST of every sendWebhook
\* call a step of its own
NextWebhook ==
  \/ (NoneRunning /\ CronStart)
  \/ (NoneRunning /\ ManualStart)
  \/ \E c \in Callers : MonitorStepByPost(c)
  \/ MarketTick

SpecWebhook == InitWith(SymbolTableOne) /\ [][NextWebhook]_vars

\* the ledger alone: any callers of recordAlert and createAlertNew, racing on
\* the same keys; each SQL statement is atomic
LedgerKeys == {<<"BTCUSDT", WindowEndAt(n), DEFAULT_THRESHOLD_PERCENT>> : n \in 1..2}

LedgerStatuses == {"SENT", "SKIPPED", "FAILED"}

\* recordAlert(db, data) by some writer
LedgerRecordAlert ==
  /\ nextAlertId <= MaxWrites
  /\ \E key \in LedgerKeys, status \in LedgerStatuses :
       alerts' = insertOrReplace(alerts, nextAlertId,
                    AlertRow(key[1], -250, key[2], key, status, NONE))
  /\ nextAlertId' = nextAlertId + 1
  /\ UNCHANGED <<calc, symbols, alertsNew, nextAlertNewId, marketStep, sent, started,
                 pc, opts, queue, cur, results>>

\* createAlertNew(db, alert) by some writer; a key conflict throws
LedgerCreateAlertNew ==
  /\ nextAlertNewId <= MaxWrites
  /\ \E key \in LedgerKeys, status \in LedgerStatuses :
       LET written == insertAlertNew(alertsNew, nextAlertNewId,
                         AlertNewRow(key[1], "price_change_percent", key[3], key[2], key,
                                     status, NONE))
       IN /\ alertsNew' = written.table
          /\ nextAlertNewId' = IF written.ok THEN nextAlertNewId + 1 ELSE nextAlertNewId
  /\ UNCHANGED <<calc, symbols, alerts, nextAlertId, marketStep, sent, started,
                 pc, opts, queue, cur, results>>

NextLedger ==
  \/ LedgerRecordAlert
  \/ LedgerCreateAlertNew

SpecLedger == Init /\ [][NextLedger]_vars

\* non-overlapping invocations of runMultiIndicatorMonitor, while the operator
\* may edit cooldowns between them
NextMulti ==
  \/ (NoneRunning /\ CronStartMulti)
  \/ (NoneRunning /\ ManualStartMulti)
  \/ \E c \in Callers : MultiStep(c)
  \/ MarketTick
  \/ UpdateSymbolCooldown

SpecMulti == InitWith(SymbolTableNoCooldown) /\ [][NextMulti]_vars

(* ------------------------------- claims -------------------------------- *)
\* the table with cooldown_minutes 0 on BTCUSDT, the symbol with two rules
SymbolTableBtcNoCooldown ==
  [SymbolTable EXCEPT !["BTCUSDT"].cooldown_minutes = Some(0)]

\* non-overlapping invocations of runMultiIndicatorMonitor in which a ledger
\* statement may throw
NextMultiFault ==
  \/ (NoneRunning /\ CronStartMulti)
  \/ (NoneRunning /\ ManualStartMulti)
  \/ \E c \in Callers : MultiStep(c)
  \/ \E c \in Callers : MultiLedgerFails(c)
  \/ MarketTick

SpecMultiFault == InitWith(SymbolTableBtcNoCooldown) /\ [][NextMultiFault]_vars

\* non-overlapping invocations of either pipeline on one database
NextBoth ==
  \/ NextSeq
  \/ (NoneRunning /\ CronStartMulti)
  \/ (NoneRunning /\ ManualStartMulti)
  \/ \E c \in Callers : MultiStep(c)

SpecBoth == InitWith(SymbolTableNoCooldown) /\ [][NextBoth]_vars

RowsFor(table, key) == {r \in table : r.idempotency_key = key}

PastIdempotencyCheck(c) == pc[c] \in {"latest", "recordSkipped", "send", "record"}

\* a result entry that reports the stored row of a key as a duplicate
IsDuplicateOf(entry, row) ==
  /\ entry.reason = "duplicate"
  /\ entry.symbol = row.symbol
  /\ entry.windowEnd = Some(row.window_end)
  /\ entry.status = row.status
  /\ entry.triggered = (row.status = "SENT")

\* C1: with non-overlapping invocations of runMonitor and a ledger that
\* answers, a key is delivered at most once and has at most one row, which is
\* never written again; an invocation gets past the idempotency lookup only
\* while the key has no row, so every later invocation reports "duplicate"
\* with the stored row's status; a delivery is followed by exactly one row.
C1_SequentialIdempotency ==
  /\ \A d \in sent : Deliveries(d.key) <= 1
  /\ \A d \in sent : Cardinality(RowsFor(alerts, d.key)) =
                       IF \E c \in Callers : pc[c] = "record" /\ cur[c].idempotencyKey = d.key
                       THEN 0 ELSE 1
  /\ \A r \in alerts : Cardinality(RowsFor(alerts, r.idempotency_key)) = 1
  /\ Cardinality(alerts) = nextAlertId - 1
  /\ \A c \in Callers : PastIdempotencyCheck(c) => RowsFor(alerts, cur[c].idempotencyKey) = {}
  /\ \A c \in Callers : \A n \in 1..Len(results[c]) :
       results[c][n].reason = "duplicate" =>
         \E r \in alerts : IsDuplicateOf(results[c][n], r)

\* a later invocation has reported the duplicate of a delivered key
C1_Witness ==
  \E c \in Callers : \E n \in 1..Len(results[c]) : \E r \in alerts :
    /\ IsDuplicateOf(results[c][n], r)
    /\ r.status = "SENT"
    /\ Deliveries(r.idempotency_key) = 1

\* C2: when invocations of runMonitor overlap, only one of them calls
\* sendWebhook for a key: the endpoint sees at most one delivery per key.
C2_OverlappingSingleDelivery ==
  \A d \in sent : Deliveries(d.key) <= 1

\* the step of caller c that ends the handling of the current trigger
Step(c) == pc'[c] # pc[c] \/ results'[c] # results[c]

\* C3: in runMultiIndicatorMonitor a trigger whose key already has a row in
\* alerts_new is reported "duplicate" with that row's status; no webhook is
\* sent and no insert is attempted for it.
C3_MultiDuplicateReported ==
  [][\A c \in Callers :
       (/\ pc[c] \in {"m_cooldown", "m_find"}
        /\ RowsFor(alertsNew, TriggerKey(c)) # {}
        /\ Step(c))
       => /\ sent' = sent
          /\ alertsNew' = alertsNew
          /\ \/ (pc[c] = "m_cooldown" /\ pc'[c] = "m_find" /\ results'[c] = results[c])
             \/ \E r \in RowsFor(alertsNew, TriggerKey(c)) :
                  results'[c] = Append(results[c],
                     MultiResult(cur[c].symbol, Trigger(c).indicatorType, r.status,
                                 r.status = "SENT", Some(cur[c].windowEnd), "duplicate"))]_vars

\* the cooldown as the lookup of the pair's latest row would decide it
PairInCooldown(c) ==
  \E l \in getLatestAlertNewForSymbol(D1, cur[c].symbol, Trigger(c).indicatorType).rows :
    cur[c].windowEnd - l.window_end < cur[c].cooldownMinutes * 60 * 1000

\* C4: in runMultiIndicatorMonitor a triggered rule with no row for its key
\* and outside its cooldown goes on to a webhook delivery, and the delivery
\* is followed by exactly one row for the key, SENT when it succeeded and
\* FAILED otherwise.
C4_MultiDeliveredAndRecorded ==
  [][\A c \in Callers :
       /\ (/\ pc[c] = "m_cooldown"
           /\ RowsFor(alertsNew, TriggerKey(c)) = {}
           /\ ~PairInCooldown(c)
           /\ Step(c)) => pc'[c] = "m_find"
       /\ (/\ pc[c] = "m_find"
           /\ RowsFor(alertsNew, TriggerKey(c)) = {}
           /\ Step(c)) => pc'[c] = "m_send"
       /\ (pc[c] = "m_send" /\ Step(c)) =>
            LET key == TriggerKey(c) IN
            /\ pc'[c] = "m_record"
            /\ Cardinality({d \in sent' : d.key = key}) = Deliveries(key) + 1
       /\ (pc[c] = "m_record" /\ Step(c)) =>
            LET key == TriggerKey(c)
                status == IF cur[c].webhookResult.success THEN "SENT" ELSE "FAILED"
            IN /\ Cardinality(RowsFor(alertsNew', key)) = 1
               /\ \A r \in RowsFor(alertsNew', key) : r.status = status]_vars

KeyUnique(table) ==
  \A r1, r2 \in table : r1.idempotency_key = r2.idempotency_key => r1 = r2

\* C5: in every reachable state, whatever writers race on a key, table alerts
\* and table alerts_new each hold at most one row per idempotency_key.
C5_LedgerKeyUnique ==
  KeyUnique(alerts) /\ KeyUnique(alertsNew)

\* both tables hold rows, and a row of alerts has been replaced by a later
\* write on its key
C5_Witness ==
  /\ alertsNew # {}
  /\ nextAlertNewId > 2
  /\ Cardinality(alerts) >= 2
  /\ nextAlertId - 1 > Cardinality(alerts)

\* window_end of the most recent row of a symbol in table alerts
LatestWindowEnds(symbol) ==
  {r.window_end : r \in {x \in alerts : x.symbol = symbol
                          /\ \A o \in alerts : o.symbol = symbol => o.window_end <= x.window_end}}

\* the handling of the current trigger of runMonitor ends with this step
TriggerEnds(c) ==
  /\ pc[c] \in {"find", "latest", "recordSkipped", "send", "record"}
  /\ Len(results'[c]) = Len(results[c]) + 1

\* the step records the trigger as skipped for cooldown and nothing was delivered
SkippedForCooldown(c) ==
  /\ pc[c] = "recordSkipped"
  /\ sent' = sent
  /\ results'[c] = Append(results[c],
        Result(cur[c].symbol, "SKIPPED", FALSE, Some(cur[c].changePercent),
               Some(cur[c].windowEnd), "cooldown_active"))
  /\ \E r \in RowsFor(alerts', cur[c].idempotencyKey) : r.status = "SKIPPED"

CooldownDecision(c) ==
  \A last \in LatestWindowEnds(cur[c].symbol) :
    IF cur[c].windowEnd - last < cur[c].cooldownMinutes * 60000
    THEN SkippedForCooldown(c)
    ELSE results'[c][Len(results'[c])].reason # "cooldown_active"

\* C6 as stated: a trigger whose window end is less than cooldownMinutes x
\* 60000 ms after the window end of the symbol's most recent row is recorded
\* SKIPPED (cooldown_active) and not delivered; at that distance or more it
\* is not skipped for cooldown.
C6_CooldownDecisionAsStated ==
  [][\A c \in Callers : TriggerEnds(c) => CooldownDecision(c)]_vars

\* C6 amended: the same decision, for a trigger whose idempotency key has no
\* row yet (a key that has a row is reported as a duplicate before the
\* cooldown is looked at).
C6_CooldownDecision ==
  [][\A c \in Callers :
       (TriggerEnds(c) /\ RowsFor(alerts, cur[c].idempotencyKey) = {})
       => /\ CooldownDecision(c)
          /\ (LatestWindowEnds(cur[c].symbol) = {} => pc[c] = "record")]_vars

\* rows 9m59s apart made a trigger skip, and rows exactly 10 minutes apart exist
C6_Witness ==
  \E r1, r2, r3 \in alerts :
    /\ r1.symbol = "BTCUSDT" /\ r2.symbol = "BTCUSDT" /\ r3.symbol = "BTCUSDT"
    /\ r1.status = "SENT"
    /\ r2.window_end - r1.window_end = 599000 /\ r2.status = "SKIPPED"
    /\ r3.window_end - r1.window_end >= 600000

CooldownOf(symbol) == Coalesce(symbols[symbol].cooldown_minutes, DEFAULT_COOLDOWN_MINUTES)

\* C7: any two SENT rows of one symbol in table alerts have window ends at
\* least cooldownMinutes x 60000 ms apart.
C7_SentSpacing ==
  \A r1, r2 \in alerts :
    (r1 # r2 /\ r1.symbol = r2.symbol /\ r1.status = "SENT" /\ r2.status = "SENT")
    => Abs(r1.window_end - r2.window_end) >= CooldownOf(r1.symbol) * 60000

\* BTCUSDT (10 minute cooldown) has two delivered alerts
C7_Witness ==
  \E r1, r2 \in alerts :
    /\ r1 # r2 /\ r1.symbol = "BTCUSDT" /\ r2.symbol = "BTCUSDT"
    /\ r1.status = "SENT" /\ r2.status = "SENT"

\* C8: a trigger of runMonitor is skipped as cooldown_active only when its
\* window end is less than cooldownMinutes x 60000 ms after the window end of
\* a SENT row of the symbol; SKIPPED and FAILED rows do not count.
C8_CooldownFromLastSent ==
  \A c \in Callers :
    (pc[c] = "recordSkipped"
       /\ \E r \in alerts : r.symbol = cur[c].symbol /\ r.status = "SENT") =>
      \E r \in alerts :
        /\ r.symbol = cur[c].symbol
        /\ r.status = "SENT"
        /\ cur[c].windowEnd - r.window_end < cur[c].cooldownMinutes * 60000

\* C9: once a key has a FAILED row, a later invocation of runMonitor that
\* reaches the key reports "duplicate" with status FAILED and triggered =
\* false, sends no webhook and leaves the ledger as it is.
C9_FailedOccupiesKey ==
  [][\A c \in Callers :
       (/\ pc[c] = "find"
        /\ \E r \in RowsFor(alerts, cur[c].idempotencyKey) : r.status = "FAILED"
        /\ Step(c))
       => /\ sent' = sent
          /\ alerts' = alerts
          /\ \E r \in RowsFor(alerts, cur[c].idempotencyKey) :
               results'[c] = Append(results[c],
                  Result(cur[c].symbol, "FAILED", FALSE, Some(r.change_percent),
                         Some(r.window_end), "duplicate"))]_vars

\* an invocation has reported the duplicate of a FAILED key
C9_Witness ==
  \E c \in Callers : \E n \in 1..Len(results[c]) : \E r \in alerts :
    /\ IsDuplicateOf(results[c][n], r)
    /\ r.status = "FAILED"
    /\ ~results[c][n].triggered
    /\ \A d \in sent : d.key = r.idempotency_key => ~d.success

\* C10: also when a ledger write may fail, at most one successful webhook
\* delivery happens per idempotency key.
C10_OneSuccessfulDeliveryPerKey ==
  \A d1, d2 \in sent :
    (d1.key = d2.key /\ d1.success /\ d2.success) => d1 = d2

\* the symbols an invocation has to process, from its options
Resolved(c) ==
  LET found == resolveSymbols(symbols, opts[c].symbols).symbols
  IN {found[n].symbol : n \in 1..Len(found)}

ResultSymbols(c) == {results[c][n].symbol : n \in 1..Len(results[c])}

\* the failed fetch costs the symbol its alert and nothing else: no POST, no
\* row, one FAILED entry, and the loop is at the next symbol
FailedFetchOnly(c, entry, fetchAt) ==
  /\ sent' = sent
  /\ alerts' = alerts /\ nextAlertId' = nextAlertId
  /\ alertsNew' = alertsNew /\ nextAlertNewId' = nextAlertNewId
  /\ results'[c] = Append(results[c], entry)
  /\ queue'[c] = Tail(queue[c])
  /\ pc'[c] = IF Tail(queue[c]) = <<>> THEN "done" ELSE fetchAt

\* C11: in runMonitor and in runMultiIndicatorMonitor a failed candle fetch
\* gives the symbol one FAILED result, sends nothing and writes nothing, and
\* the run goes on with the next symbol; a finished run has a result for
\* every symbol it had to process.
C11_FetchFailureIsolated ==
  /\ [](\A c \in Callers : pc[c] = "done" => Resolved(c) \subseteq ResultSymbols(c))
  /\ [][\A c \in Callers :
          /\ FetchFails(c) =>
               FailedFetchOnly(c, Result(Head(queue[c]).symbol, "FAILED", FALSE, NONE, NONE,
                                         "enhanced_fetch_error"), "fetch")
          /\ MultiFetchFails(c) =>
               FailedFetchOnly(c, MultiResult(Head(queue[c]).symbol, "N/A", "FAILED", FALSE,
                                              NONE, "monitor_error"), "m_fetch")]_vars

\* BTCUSDT's fetch failed and ETHUSDT, after it, was delivered in the same run
C11_Witness ==
  \E c \in Callers : \E n \in 1..Len(results[c]) : \E m \in 1..Len(results[c]) :
    /\ n < m
    /\ results[c][n].symbol = "BTCUSDT" /\ results[c][n].reason = "enhanced_fetch_error"
    /\ results[c][m].symbol = "ETHUSDT" /\ results[c][m].status = "SENT"

\* the distinct upper-cased symbols an invocation was asked for (all enabled
\* symbols when the request names none)
Requested(c) ==
  IF opts[c].symbols = <<>>
  THEN {s \in DOMAIN symbols : symbols[s].enabled = 1}
  ELSE {normalizeSymbol(opts[c].symbols[n]) : n \in 1..Len(opts[c].symbols)}

EntriesFor(c, symbol) == {n \in 1..Len(results[c]) : results[c][n].symbol = symbol}

\* C12: the array runMonitor returns has exactly one entry for each distinct
\* upper-cased requested symbol and no other entry, whatever happened to the
\* symbols of the run.
C12_ResultCompleteness ==
  \A c \in Callers :
    pc[c] = "done" =>
      /\ \A s \in Requested(c) : Cardinality(EntriesFor(c, s)) = 1
      /\ Len(results[c]) = Cardinality(Requested(c))

\* a request naming BTCUSDT twice, an unknown and a disabled symbol returns
\* three entries, BTCUSDT's a duplicate
C12_Witness ==
  \E c \in Callers :
    /\ pc[c] = "done"
    /\ Len(opts[c].symbols) = 4
    /\ Len(results[c]) = 3
    /\ \E n \in 1..3 : results[c][n].reason = "symbol_not_found"
    /\ \E n \in 1..3 : results[c][n].reason = "symbol_disabled"
    /\ \E n \in 1..3 : results[c][n].symbol = "BTCUSDT" /\ results[c][n].reason = "duplicate"

\* C13: in runMultiIndicatorMonitor a ledger write that throws for one
\* trigger fails that trigger only: the symbol's remaining triggers are
\* still processed, and so are the remaining symbols.
C13_WriteErrorFailsOneTrigger ==
  [][\A c \in Callers :
       (MultiLedgerFails(c) /\ pc[c] = "m_record") =>
          IF Len(cur[c].triggers) > 1
          THEN /\ pc'[c] = "m_cooldown"
               /\ cur'[c].triggers = Tail(cur[c].triggers)
               /\ queue'[c] = queue[c]
          ELSE /\ queue'[c] = Tail(queue[c])
               /\ pc'[c] = IF Tail(queue[c]) = <<>> THEN "done" ELSE "m_fetch"]_vars

\* the symbols that can be asked for and are not served: not in table
\* symbols, or there with enabled # 1
Unserved ==
  {s \in DOMAIN symbols \cup {"DOGEUSDT"} :
     getSymbol(symbols, s) = {} \/ \E r \in getSymbol(symbols, s) : r.enabled # 1}

SkipReason(s) == IF getSymbol(symbols, s) = {} THEN "symbol_not_found" ELSE "symbol_disabled"

NamedInRequest(c) == {normalizeSymbol(opts[c].symbols[n]) : n \in 1..Len(opts[c].symbols)}

\* C14: in both pipelines a requested symbol that is unknown or disabled has
\* one SKIPPED entry with reason symbol_not_found or symbol_disabled; it is
\* never fetched, nothing is sent for it and no ledger row is written for it.
C14_UnservedShortCircuit ==
  \A s \in Unserved :
    /\ \A r \in alerts \cup alertsNew : r.symbol # s
    /\ \A d \in sent : d.key[1] # s
    /\ \A c \in Callers :
         /\ \A n \in 1..Len(queue[c]) : queue[c][n].symbol # s
         /\ cur[c].symbol # s
         /\ \A n \in EntriesFor(c, s) :
              /\ results[c][n].status = "SKIPPED"
              /\ ~results[c][n].triggered
              /\ results[c][n].reason = SkipReason(s)
         /\ (pc[c] # "idle" /\ s \in NamedInRequest(c)) => Cardinality(EntriesFor(c, s)) = 1

\* a run asked for an unknown and a disabled symbol next to BTCUSDT: both are
\* skipped and BTCUSDT is delivered
C14_Witness ==
  \E c \in Callers :
    /\ {"DOGEUSDT", "XRPUSDT"} \subseteq NamedInRequest(c)
    /\ Cardinality(EntriesFor(c, "DOGEUSDT")) = 1
    /\ Cardinality(EntriesFor(c, "XRPUSDT")) = 1
    /\ \E n \in EntriesFor(c, "BTCUSDT") : results[c][n].status = "SENT"

ThresholdOf(symbol) == Coalesce(symbols[symbol].threshold_percent, DEFAULT_THRESHOLD_PERCENT)

NoTriggerReasons == {"below_threshold", "below_threshold_or_filters", "no_triggers"}

LastEntry(list) == list[Len(list)]

\* C15: a symbol for which no rule triggers gets a single SKIPPED entry and
\* nothing else: no ledger row is written and no webhook is sent for it;
\* only a change at or above the threshold (a non-empty trigger list in
\* runMultiIndicatorMonitor) goes on to the ledger and the webhook.
C15_NoTriggerTouchesNothing ==
  /\ [](\A r \in alerts : Abs(r.change_percent) >= ThresholdOf(r.symbol))
  /\ [][\A c \in Callers :
          /\ (pc[c] = "fetch" /\ pc'[c] = "find") =>
                Abs(cur'[c].changePercent) >= ThresholdOf(cur'[c].symbol)
          /\ (pc[c] = "m_fetch" /\ pc'[c] = "m_cooldown") => cur'[c].triggers # <<>>
          /\ (/\ pc[c] \in {"fetch", "m_fetch"}
              /\ results'[c] # results[c]
              /\ LastEntry(results'[c]).reason \in NoTriggerReasons) =>
                /\ results'[c] = Append(results[c], LastEntry(results'[c]))
                /\ LastEntry(results'[c]).status = "SKIPPED"
                /\ ~LastEntry(results'[c]).triggered
                /\ LastEntry(results'[c]).symbol = Head(queue[c]).symbol
                /\ sent' = sent
                /\ alerts' = alerts /\ nextAlertId' = nextAlertId
                /\ alertsNew' = alertsNew /\ nextAlertNewId' = nextAlertNewId]_vars

\* runMultiIndicatorMonitor reported no_triggers for ETHUSDT on a window
\* alerts_new has no row for, while both ledgers hold rows of other windows
C15_Witness ==
  /\ \E c \in Callers : \E n \in 1..Len(results[c]) :
       /\ results[c][n].reason = "no_triggers"
       /\ results[c][n].symbol = "ETHUSDT"
       /\ \A r \in alertsNew : Some(r.window_end) # results[c][n].windowEnd
  /\ alertsNew # {}
  /\ alerts # {}

PostsFor(key) == {d \in sent : d.key = key}

ClientError(outcome) == outcome.status # NONE /\ outcome.status[1] \in 400..499

\* C16: a 4xx response ends the sendWebhook call: no POST follows it, and a
\* call whose first response is 4xx returns success = false with attempts = 1
\* whatever maxRetries is.
C16_ClientErrorTerminal ==
  \A d \in sent :
    ClientError(d.outcome) =>
      /\ d.nth = Deliveries(d.key)
      /\ \A c \in Callers :
           /\ ~(pc[c] = "send" /\ cur[c].idempotencyKey = d.key)
           /\ (pc[c] = "record" /\ cur[c].idempotencyKey = d.key /\ d.nth = 1) =>
                (~cur[c].webhookResult.success /\ cur[c].webhookResult.attempts = 1)

\* C17: a sendWebhook call that returns success = true reports as attempts
\* the number k <= maxRetries of POSTs it made; the k-th POST is the one that
\* got 2xx, the POSTs before it failed, and no POST follows a 2xx.
C17_RetryUntilFirstSuccess ==
  /\ \A d \in sent : d.success => d.nth = Deliveries(d.key)
  /\ \A c \in Callers :
       (pc[c] = "record" /\ cur[c].webhookResult.success) =>
         LET k == cur[c].webhookResult.attempts IN
         /\ k \in 1..maxRetries
         /\ Deliveries(cur[c].idempotencyKey) = k
         /\ \A d \in PostsFor(cur[c].idempotencyKey) : d.success = (d.nth = k)

\* a 502 and then a 200: success on attempt 2
C17_Witness ==
  \E c \in Callers :
    /\ pc[c] = "record"
    /\ cur[c].webhookResult.success
    /\ cur[c].webhookResult.attempts = 2
    /\ \E d \in PostsFor(cur[c].idempotencyKey) : d.nth = 1 /\ d.outcome = Response(502)

\* every POST made for the key so far was answered 5xx
AllServerErrors(key) ==
  /\ PostsFor(key) # {}
  /\ \A d \in PostsFor(key) : d.outcome = Response(502)

\* C18: when every attempt is answered 5xx, sendWebhook makes exactly
\* maxRetries POSTs, never more, and returns success = false with attempts =
\* maxRetries; runMonitor then writes the key's row with status FAILED.
C18_ExhaustedRetries ==
  /\ \A d \in sent : Deliveries(d.key) <= maxRetries
  /\ \A c \in Callers :
       /\ (pc[c] = "send" /\ AllServerErrors(cur[c].idempotencyKey)) =>
            Deliveries(cur[c].idempotencyKey) < maxRetries
       /\ (pc[c] = "record" /\ AllServerErrors(cur[c].idempotencyKey)) =>
            /\ ~cur[c].webhookResult.success
            /\ cur[c].webhookResult.attempts = maxRetries
            /\ Deliveries(cur[c].idempotencyKey) = maxRetries
  /\ \A r \in alerts :
       AllServerErrors(r.idempotency_key) =>
         (r.status = "FAILED" /\ Deliveries(r.idempotency_key) = maxRetries)

\* a key whose POSTs were all answered 502 has its FAILED row
C18_Witness ==
  \E r \in alerts :
    /\ AllServerErrors(r.idempotency_key)
    /\ Deliveries(r.idempotency_key) = maxRetries
    /\ r.status = "FAILED"

\* C19: whatever the POSTs come to (2xx, 4xx, 5xx, transport error, timeout
\* abort), sendWebhook does not throw: the call makes its next POST or
\* returns a result with success, attempts and, on failure, an error message.
C19_SendWebhookNeverThrows ==
  /\ [](\A c \in Callers : pc[c] = "send" => LoopVars(c).attempt < maxRetries)
  /\ [][\A c \in Callers :
          (pc[c] = "send" /\ cur'[c] # cur[c]) =>
            /\ results'[c] = results[c]
            /\ queue'[c] = queue[c]
            /\ \/ pc'[c] = "send" /\ LoopVars(c)'.attempt = LoopVars(c).attempt + 1
               \/ /\ pc'[c] = "record"
                  /\ cur'[c].webhookResult.success \in BOOLEAN
                  /\ cur'[c].webhookResult.attempts \in 1..maxRetries
                  /\ cur'[c].webhookResult.success =>
                       cur'[c].webhookResult.status = Some(200)
                  /\ ~cur'[c].webhookResult.success =>
                       cur'[c].webhookResult.error # NONE]_vars

\* every POST of a call timed out: the result has no status and the abort
\* error's message
C19_Witness ==
  \E c \in Callers :
    /\ pc[c] = "record"
    /\ ~cur[c].webhookResult.success
    /\ cur[c].webhookResult.status = NONE
    /\ cur[c].webhookResult.attempts = maxRetries
    /\ cur[c].webhookResult.error = Some("The operation was aborted")

\* the invocations that are inside sendWebhook for a key, or back from it
\* with the row not yet written
Delivering(key) ==
  {c \in Callers : pc[c] \in {"send", "record"} /\ cur[c].idempotencyKey = key}

\* C20: runMonitor writes the SENT or FAILED row of a key only after
\* sendWebhook has returned for that trigger, SENT exactly when the delivery
\* succeeded; wherever an invocation stops, the ledger has no row for a
\* trigger whose delivery has not completed.
C20_LedgerWriteAfterDelivery ==
  /\ [](\A r \in alerts :
         /\ Delivering(r.idempotency_key) = {}
         /\ r.status \in {"SENT", "FAILED"} =>
              /\ Deliveries(r.idempotency_key) \in 1..maxRetries
              /\ (r.status = "SENT") = (\E d \in PostsFor(r.idempotency_key) : d.success))
  /\ [][\A r \in alerts' \ alerts :
          r.status \in {"SENT", "FAILED"} =>
            \E c \in Callers :
              /\ pc[c] = "record"
              /\ pc'[c] # "record"
              /\ sent' = sent
              /\ r.idempotency_key = cur[c].idempotencyKey
              /\ (r.status = "SENT") = cur[c].webhookResult.success]_vars

\* an invocation between two POSTs of a delivery, with a SENT row of an
\* earlier trigger in the ledger and none for its own key
C20_Witness ==
  \E c \in Callers :
    /\ pc[c] = "send"
    /\ LoopVars(c).attempt >= 1
    /\ \E r \in alerts : r.status = "SENT"
    /\ \A r \in alerts : r.idempotency_key # cur[c].idempotencyKey

\* non-overlapping invocations of either pipeline, BTCUSDT (two rules) with
\* cooldown_minutes 0
SpecSequential == InitWith(SymbolTableBtcNoCooldown) /\ [][NextBoth]_vars

InTriggerLoop(c) == pc[c] \in {"m_cooldown", "m_recordSkipped", "m_find", "m_send", "m_record"}

\* the ledger row behind a result entry that reports a ledger-decided outcome
LedgerBacked(entry) ==
  IF "indicatorType" \in DOMAIN entry
  THEN entry.indicatorType \notin {"N/A", "ALL"} =>
         \E r \in alertsNew : /\ r.symbol = entry.symbol
                               /\ r.indicator_name = entry.indicatorType
                               /\ Some(r.window_end) = entry.windowEnd
  ELSE (entry.windowEnd # NONE /\ entry.reason \notin NoTriggerReasons) =>
         \E r \in alerts : r.symbol = entry.symbol /\ Some(r.window_end) = entry.windowEnd

\* C21: an invocation works on one symbol and one trigger at a time: no
\* result exists for a symbol that is still waiting in the list, a candle
\* fetch is awaited with no trigger in hand, a step makes at most one POST
\* and it is the POST of the trigger in hand, and every outcome reported so
\* far already has its ledger row when the next lookup is made.
C21_SequentialProcessing ==
  /\ [](\A c \in Callers :
         /\ \A i \in DOMAIN results[c] : LedgerBacked(results[c][i])
         /\ pc[c] \in {"fetch", "m_fetch"} => cur[c] = NoCur
         /\ pc[c] \notin {"idle", "done"} =>
              \A i \in DOMAIN results[c], j \in DOMAIN queue[c] :
                results[c][i].symbol = queue[c][j].symbol => (j = 1 /\ InTriggerLoop(c)))
  /\ [][/\ Cardinality(sent') <= Cardinality(sent) + 1
        /\ \A d \in sent' \ sent :
             \E c \in Callers :
               \/ pc[c] = "send" /\ pc'[c] = "record" /\ d.key = cur[c].idempotencyKey
               \/ pc[c] = "m_send" /\ pc'[c] = "m_record" /\ d.key = TriggerKey(c)]_vars

\* the lookup for BTCUSDT's second trigger, with the first trigger's SENT
\* entry reported and its row in alerts_new
C21_Witness ==
  \E c \in Callers :
    /\ pc[c] = "m_find"
    /\ Trigger(c).indicatorType = "volume_surge"
    /\ \E i \in DOMAIN results[c] :
         /\ results[c][i].symbol = cur[c].symbol
         /\ results[c][i].indicatorType = "price_change_percent"
         /\ results[c][i].status = "SENT"
    /\ \E r \in alertsNew :
         r.symbol = cur[c].symbol /\ r.indicator_name = "price_change_percent"
                                 /\ r.window_end = cur[c].windowEnd

\* C22: the cooldown applied to a trigger is the cooldown_minutes of its
\* symbol-indicator binding when set, else the symbol's, else the default.
C22_BindingCooldownApplied ==
  \A c \in Callers :
    pc[c] = "m_cooldown" =>
      TriggerCooldownMinutes(c) =
        Coalesce(Trigger(c).cooldown_minutes,
                 Coalesce(symbols[cur[c].symbol].cooldown_minutes, DEFAULT_COOLDOWN_MINUTES))

\* C23: every POST of one sendWebhook call carries the same body, the JSON
\* serialization of the call's payload, and an x-signature header equal to
\* hex(HMAC-SHA256(secret, body)) of exactly that body.
C23_SignedBody ==
  /\ \A d \in sent :
       /\ d.signature = <<"hex", <<"HMAC-SHA256", webhookHmacSecret, d.body>>>>
       /\ \A e \in PostsFor(d.key) : e.body = d.body /\ e.signature = d.signature
  /\ \A c \in Callers :
       pc[c] \in {"send", "record"} =>
         \A d \in PostsFor(cur[c].idempotencyKey) : d.body = Stringify(Payload(c))

\* a call that has made two POSTs, the second one of a retry
C23_Witness ==
  \E d, e \in sent :
    /\ d.key = e.key /\ d.nth = 1 /\ e.nth = 2
    /\ e.body = <<"{", "symbol", ":", "BTCUSDT", ",", "change_percent", ":", "-250", ",",
                  "direction", ":", "DOWN", ",", "window_end", ":", "300000", "}">>

(* ---------------------- the legacy price window ------------------------ *)
\* closes, in the smallest price unit of the pair
Closes == {0, 80, 100, 105}

\* candle sequences of up to MaxKlines candles
KlineSequences ==
  UNION {[1..n -> {[close |-> x] : x \in Closes}] : n \in 0..MaxKlines}

InitPriceWindow ==
  /\ ProgramInit(SymbolTable)
  /\ calc \in {Call("enhancedKlinesToPriceWindow", klines) : klines \in KlineSequences}

BuildPriceWindow ==
  Returns("enhancedKlinesToPriceWindow", enhancedKlinesToPriceWindow(calc.arguments))

SpecPriceWindow == InitPriceWindow /\ [][BuildPriceWindow]_vars

\* C24: the window builder gives no window below two candles; otherwise its
\* priceChangePercent is calculatePercentChange of the closes of the last
\* two candles: (current - previous) / previous when previous # 0, else 0.
C24_PercentChangeOfLastTwoCloses ==
  Returned("enhancedKlinesToPriceWindow") =>
    LET klines == calc.arguments
        n == Len(klines)
    IN IF n < 2 THEN Value = NONE
       ELSE LET window == Value[1]
                previous == klines[n - 1].close
                current == klines[n].close
                percent == window.priceChangePercent
            IN /\ window.previousClose = previous
               /\ window.currentClose = current
               /\ percent.den > 0
               /\ IF previous = 0 THEN percent.num = 0
                  ELSE percent.num * previous = (current - previous) * percent.den

\* three candles closing at 80, 100, 105: the change is 5/100
C24_Witness ==
  /\ Returned("enhancedKlinesToPriceWindow")
  /\ calc.arguments = <<[close |-> 80], [close |-> 100], [close |-> 105]>>
  /\ Value = Some([previousClose |-> 100, currentClose |-> 105, priceChange |-> 5,
                   priceChangePercent |-> [num |-> 1, den |-> 20]])

(* --------------------------- shouldTriggerAlert ------------------------ *)
Percents == (0 - MaxPercent)..MaxPercent

InitShouldTrigger ==
  /\ ProgramInit(SymbolTable)
  /\ calc \in {Call("shouldTriggerAlert", <<changePercent, thresholdPercent>>) :
                  changePercent \in Percents, thresholdPercent \in Percents}

EvalShouldTrigger ==
  Returns("shouldTriggerAlert", shouldTriggerAlert(calc.arguments[1], calc.arguments[2]))

SpecShouldTrigger == InitShouldTrigger /\ [][EvalShouldTrigger]_vars

\* C25: shouldTriggerAlert(changePercent, threshold) is true exactly when
\* |changePercent| >= |threshold|, whatever the signs of the two.
C25_ThresholdByMagnitude ==
  Returned("shouldTriggerAlert") =>
    LET changePercent == calc.arguments[1]
        threshold == calc.arguments[2]
    IN Value = (changePercent * changePercent >= threshold * threshold)

\* a falling price against a threshold stored negative, at equality
C25_Witness ==
  /\ Returned("shouldTriggerAlert")
  /\ calc.arguments = <<-3, -3>>
  /\ Value = TRUE

(* ------------------- MultiIndicatorMonitor.analyzePrice ---------------- *)
\* open, close, change and changePercent of a window of candles
analyzePrice(klines) ==
  LET currentKline == klines[Len(klines)]
      previousKline == klines[1]
      open == previousKline.open
      close == currentKline.close
      change == close - open
  IN [open |-> open, close |-> close, change |-> change,
      changePercent |-> Scale(Divide(change, open), 100),
      direction |-> IF change >= 0 THEN "UP" ELSE "DOWN"]

\* checkIndicatorTrigger, case 'price_change_percent': the observed value
PriceChangeIndicatorValue(klines) == MathAbs(analyzePrice(klines).changePercent)

Candles == {[open |-> o, close |-> c] : o \in {0, 100}, c \in {100, 105}}

\* the windows runMultiIndicatorMonitor hands over: two candles or more
CandleWindows == UNION {[1..n -> Candles] : n \in 2..MaxKlines}

InitAnalyzePrice ==
  /\ ProgramInit(SymbolTable)
  /\ calc \in {Call("price_change_percent", klines) : klines \in CandleWindows}

EvalPriceChangeIndicator ==
  Returns("price_change_percent", PriceChangeIndicatorValue(calc.arguments))

SpecAnalyzePrice == InitAnalyzePrice /\ [][EvalPriceChangeIndicator]_vars

\* C26: the observed value of a price_change_percent rule is the absolute
\* value of (currentClose - previousClose) / previousClose over the closes of
\* the last and the second-to-last candle (0 when previousClose is 0).
C26_ObservedPriceChange ==
  Returned("price_change_percent") =>
    LET klines == calc.arguments
        currentClose == klines[Len(klines)].close
        previousClose == klines[Len(klines) - 1].close
    IN IF previousClose = 0 THEN Value = Zero
       ELSE /\ Value.den > 0
            /\ Value.num * Abs(previousClose) = Abs(currentClose - previousClose) * Value.den

(* ------------- MultiIndicatorMonitor.evaluateCondition ----------------- *)
\* 0.0001
Epsilon == [num |-> 1, den |-> 10000]

evaluateCondition(actualValue, thresholdValue, operator) ==
  CASE operator = ">" -> Less(thresholdValue, actualValue)
    [] operator = ">=" -> LessEq(thresholdValue, actualValue)
    [] operator = "<" -> Less(actualValue, thresholdValue)
    [] operator = "<=" -> LessEq(actualValue, thresholdValue)
    [] operator = "=" -> Less(MathAbs(Minus(actualValue, thresholdValue)), Epsilon)
    [] operator = "!=" -> LessEq(Epsilon, MathAbs(Minus(actualValue, thresholdValue)))
    [] OTHER -> FALSE

\* the operators the column's CHECK admits, and two it does not
Operators == {">", ">=", "<", "<=", "=", "!="}

\* observed values: 0, 2, 2.00005, 2.0001, 3, and what a zero or malformed
\* price turns the price change into
ActualValues ==
  {Zero, Number(2), Ratio(40001, 20000), Ratio(20001, 10000), Number(3), Infinity, NaN}

ThresholdValues == {Number(-1), Number(0), Number(2)}

InitEvaluateCondition ==
  /\ ProgramInit(SymbolTable)
  /\ calc \in {Call("evaluateCondition",
                      [actualValue |-> a, thresholdValue |-> t, operator |-> op]) :
                  a \in ActualValues, t \in ThresholdValues,
                  op \in Operators \cup {"==", "<>"}}

EvalEvaluateCondition ==
  Returns("evaluateCondition",
          evaluateCondition(calc.arguments.actualValue, calc.arguments.thresholdValue,
                            calc.arguments.operator))

SpecEvaluateCondition == InitEvaluateCondition /\ [][EvalEvaluateCondition]_vars

(* --------------------------- abnormal_volume --------------------------- *)
calculateZScore_Unguarded(currentVolume, meanVolume, stdDevVolume) ==
  Divide(currentVolume - meanVolume, stdDevVolume)

\* stdDevVolume === 0 ? 0 : (currentVolume - meanVolume) / stdDevVolume
calculateZScore(currentVolume, meanVolume, stdDevVolume) ==
  IF stdDevVolume = 0 THEN Zero ELSE Divide(currentVolume - meanVolume, stdDevVolume)

\* checkIndicatorTrigger, case 'abnormal_volume'
AbnormalVolumeTrigger(zScore, thresholdValue, operator) ==
  LET indicatorValue == MathAbs(zScore)
  IN [indicatorValue |-> indicatorValue,
      triggered |-> evaluateCondition(indicatorValue, thresholdValue, operator)]

\* a window's current volume with the mean and the standard deviation of its
\* history, and a rule as the indicator routes store it (any number as threshold)
AbnormalVolumeInputs ==
  [currentVolume : {0, 10, 30}, meanVolume : {10, 20}, stdDevVolume : {0, 5},
   thresholdValue : {Number(-1), Number(0), Number(2)}, operator : {">", ">="}]

InitAbnormalVolume ==
  /\ ProgramInit(SymbolTable)
  /\ calc \in {Call("abnormal_volume", input) : input \in AbnormalVolumeInputs}

EvalAbnormalVolume ==
  LET input == calc.arguments IN
  Returns("abnormal_volume",
          AbnormalVolumeTrigger(calculateZScore(input.currentVolume, input.meanVolume,
                                                input.stdDevVolume),
                                input.thresholdValue, input.operator))

SpecAbnormalVolume == InitAbnormalVolume /\ [][EvalAbnormalVolume]_vars

\* C27 as stated: on a window whose historical volume standard deviation is
\* 0, an abnormal_volume rule has observed value 0 and never triggers under
\* operator '>'.
C27_ZeroDeviationNeverTriggers ==
  (Returned("abnormal_volume") /\ calc.arguments.stdDevVolume = 0) =>
    /\ Value.indicatorValue = Zero
    /\ calc.arguments.operator = ">" => ~Value.triggered

\* C27: on a window whose historical volume standard deviation is 0, an
\* abnormal_volume rule has observed value 0; under operator '>' it triggers
\* exactly when its threshold is negative, so never with a threshold of 0 or more.
C27_ZeroDeviationValueZero ==
  (Returned("abnormal_volume") /\ calc.arguments.stdDevVolume = 0) =>
    /\ Value.indicatorValue = Zero
    /\ calc.arguments.operator = ">" =>
         (Value.triggered = (calc.arguments.thresholdValue.num < 0))

\* a volume three times the mean of a flat history, rule "> 2": not triggered
C27_Witness ==
  /\ Returned("abnormal_volume")
  /\ calc.arguments = [currentVolume |-> 30, meanVolume |-> 10, stdDevVolume |-> 0,
                       thresholdValue |-> Number(2), operator |-> ">"]
  /\ Value = [indicatorValue |-> Zero, triggered |-> FALSE]

(* ------------- MultiIndicatorMonitor.checkAlertTriggers ---------------- *)
\* the AlertTrigger checkIndicatorTrigger returns
AlertTrigger(indicator, indicatorValue, triggered) ==
  [indicatorType |-> indicator.indicatorType, indicatorValue |-> indicatorValue,
   thresholdValue |-> indicator.threshold_value, operator |-> indicator.threshold_operator,
   triggered |-> triggered]

\* a case of the switch that evaluates the rule's condition on indicatorValue
Evaluated(indicator, indicatorValue) ==
  AlertTrigger(indicator, indicatorValue,
               evaluateCondition(indicatorValue, indicator.threshold_value,
                                 indicator.threshold_operator))

UnknownIndicator_Evaluated(indicator) == Evaluated(indicator, Zero)

\* default: indicatorValue = 0; triggered = false
UnknownIndicator(indicator) == AlertTrigger(indicator, Zero, FALSE)

checkIndicatorTrigger(indicator, analysis) ==
  CASE indicator.indicatorType = "price_change_percent" ->
         Evaluated(indicator, MathAbs(analysis.price.changePercent))
    [] indicator.indicatorType = "volume_change_percent" ->
         Evaluated(indicator, MathAbs(analysis.volume.changePercent))
    [] indicator.indicatorType \in {"volume_surge", "volume_spike"} ->
         Evaluated(indicator, analysis.volume.volumeRatio)
    [] indicator.indicatorType = "abnormal_volume" ->
         Evaluated(indicator, MathAbs(analysis.volume.zScore))
    [] indicator.indicatorType = "price_volume_divergence" ->
         LET priceUp == analysis.price.direction = "UP"
             volumeDown == Less(analysis.volume.changePercent, Zero)
             priceDown == analysis.price.direction = "DOWN"
             volumeUp == Less(Zero, analysis.volume.changePercent)
             divergence == (priceUp /\ volumeDown) \/ (priceDown /\ volumeUp)
         IN Evaluated(indicator, IF divergence THEN Number(1) ELSE Zero)
    [] OTHER -> UnknownIndicator(indicator)

RECURSIVE checkAlertTriggers(_, _)
\* the triggered rules of the symbol, in configuration order
checkAlertTriggers(symbolIndicators, analysis) ==
  IF symbolIndicators = <<>> THEN <<>>
  ELSE LET trigger == checkIndicatorTrigger(Head(symbolIndicators), analysis)
           rest == checkAlertTriggers(Tail(symbolIndicators), analysis)
       IN IF trigger.triggered THEN <<trigger>> \o rest ELSE rest

\* the names the switch of checkIndicatorTrigger has a case for
RecognizedIndicators ==
  {"price_change_percent", "volume_change_percent", "volume_surge", "volume_spike",
   "abnormal_volume", "price_volume_divergence"}

\* rules of one symbol; accumulation_distribution is a seeded indicator type
\* the switch has no case for
RuleChoices ==
  [indicatorType : {"accumulation_distribution", "price_change_percent", "volume_surge"},
   threshold_value : {Number(0), Number(2)},
   threshold_operator : {">=", "<="}]

\* two rules of different types (UNIQUE(symbol, indicator_type_id))
RuleLists ==
  {rules \in [1..2 -> RuleChoices] : rules[1].indicatorType # rules[2].indicatorType}

Analyses ==
  {[price |-> [changePercent |-> Number(1), direction |-> "UP"],
    volume |-> [changePercent |-> Zero, volumeRatio |-> Number(1), zScore |-> Zero]],
   [price |-> [changePercent |-> Number(-5), direction |-> "DOWN"],
    volume |-> [changePercent |-> Number(80), volumeRatio |-> Number(4), zScore |-> Number(3)]]}

InitCheckTriggers ==
  /\ ProgramInit(SymbolTable)
  /\ calc \in {Call("checkAlertTriggers", [symbolIndicators |-> rules, analysis |-> analysis]) :
                  rules \in RuleLists, analysis \in Analyses}

EvalCheckTriggers ==
  Returns("checkAlertTriggers",
          checkAlertTriggers(calc.arguments.symbolIndicators, calc.arguments.analysis))

SpecCheckTriggers == InitCheckTriggers /\ [][EvalCheckTriggers]_vars

RECURSIVE Recognized(_)
\* the rules of a list whose type the evaluator recognizes, in order
Recognized(rules) ==
  IF rules = <<>> THEN <<>>
  ELSE IF Head(rules).indicatorType \in RecognizedIndicators
       THEN <<Head(rules)>> \o Recognized(Tail(rules))
       ELSE Recognized(Tail(rules))

\* C28: a rule of an unrecognized indicator type evaluates to observed value
\* 0 and triggered = false whatever its operator and threshold, never appears
\* among the triggers, and the symbol's other rules trigger exactly as they
\* would without it.
C28_UnknownIndicatorFailsOpen ==
  Returned("checkAlertTriggers") =>
    LET rules == calc.arguments.symbolIndicators
        analysis == calc.arguments.analysis
    IN /\ \A i \in DOMAIN Value : Value[i].indicatorType \in RecognizedIndicators
       /\ \A i \in DOMAIN rules :
            rules[i].indicatorType \notin RecognizedIndicators =>
              /\ checkIndicatorTrigger(rules[i], analysis).indicatorValue = Zero
              /\ ~checkIndicatorTrigger(rules[i], analysis).triggered
       /\ Value = checkAlertTriggers(Recognized(rules), analysis)

\* accumulation_distribution "<= 2", which 0 would satisfy, ahead of a
\* price_change_percent rule that triggers
C28_Witness ==
  /\ Returned("checkAlertTriggers")
  /\ calc.arguments.symbolIndicators[1] =
       [indicatorType |-> "accumulation_distribution", threshold_value |-> Number(2),
        threshold_operator |-> "<="]
  /\ Len(Value) = 1
  /\ Value[1].indicatorType = "price_change_percent"
  /\ Value[1].indicatorValue = Number(5)

\* |actual - threshold| < 0.0001, for a threshold that is a finite number
WithinTolerance(actual, threshold) ==
  /\ actual.den # 0
  /\ Abs(actual.num * threshold.den - threshold.num * actual.den) * 10000
       < actual.den * threshold.den

\* what the claim says of the value returned for operator on (actual, threshold)
OperatorLaw(actual, threshold, operator, value) ==
  /\ operator = "=" => value = WithinTolerance(actual, threshold)
  /\ operator = "!=" => value = ~evaluateCondition(actual, threshold, "=")
  /\ operator = "<" => value = ~evaluateCondition(actual, threshold, ">=")
  /\ operator = "<=" => value = ~evaluateCondition(actual, threshold, ">")
  /\ operator \notin Operators => value = FALSE

\* C29 as stated: '=' holds exactly when |actual - threshold| < 0.0001, '!='
\* is its negation, '<' is the negation of '>=' and '<=' of '>' for every
\* pair of values, and any other operator evaluates to false.
C29_OperatorLawAllValues ==
  Returned("evaluateCondition") =>
    OperatorLaw(calc.arguments.actualValue, calc.arguments.thresholdValue,
                calc.arguments.operator, Value)

\* C29: the same for every pair of numbers; when the observed value is NaN
\* every operator, '!=' included, evaluates to false.
C29_OperatorLawOnNumbers ==
  Returned("evaluateCondition") =>
    IF IsNaN(calc.arguments.actualValue) THEN Value = FALSE
    ELSE OperatorLaw(calc.arguments.actualValue, calc.arguments.thresholdValue,
                     calc.arguments.operator, Value)

\* 2.00005 against threshold 2 under '!=': within the tolerance, so false
C29_Witness ==
  /\ Returned("evaluateCondition")
  /\ calc.arguments = [actualValue |-> [num |-> 40001, den |-> 20000],
                       thresholdValue |-> Number(2), operator |-> "!="]
  /\ Value = FALSE

(* ------------------------- retry backoff wait --------------------------- *)
RECURSIVE Pow2(_)
\* Math.pow(2, n) for an integer n >= 0
Pow2(n) == IF n = 0 THEN 1 ELSE 2 * Pow2(n - 1)

\* Math.max(x, y) of two finite numbers
MathMax(x, y) == IF Less(x, y) THEN y ELSE x

\* x + y and x * y of two finite numbers
Plus(x, y) == Ratio(x.num * y.den + y.num * x.den, x.den * y.den)
Times(x, y) == Ratio(x.num * y.num, x.den * y.den)

\* backoffBaseMs * Math.pow(2, attempt - 1)
\*   + Math.random() * Math.max(50, backoffBaseMs / 2)
waitMs(backoffBaseMs, attempt, random) ==
  Plus(Number(backoffBaseMs * Pow2(attempt - 1)),
       Times(random, MathMax(Number(50), Divide(backoffBaseMs, 2))))

\* values of RETRY_BACKOFF_BASE_MS that the environment schema accepts:
\* integers from 50 up
RetryBackoffBases == {50, 60, 99, 100, 101, 200, 500}

\* values of Math.random(): at least 0, below 1
Randoms == {Ratio(k, RandomSteps) : k \in 0..(RandomSteps - 1)}

InitBackoff ==
  /\ ProgramInit(SymbolTable)
  /\ calc \in {Call("waitMs", [backoffBaseMs |-> b, attempt |-> n, random |-> r]) :
                  b \in RetryBackoffBases, n \in 1..MaxAttempt, r \in Randoms}

EvalBackoff ==
  Returns("waitMs",
          waitMs(calc.arguments.backoffBaseMs, calc.arguments.attempt,
                 calc.arguments.random))

SpecBackoff == InitBackoff /\ [][EvalBackoff]_vars

\* C30 as stated: the wait before the retry that follows attempt n lies
\* between backoffBase * 2^(n-1) and backoffBase * 2^(n-1) + backoffBase / 2,
\* for every backoffBase of 50 ms or more.
C30_WaitWithinHalfBase ==
  Returned("waitMs") =>
    LET base == calc.arguments.backoffBaseMs
        floor == Number(base * Pow2(calc.arguments.attempt - 1))
    IN /\ LessEq(floor, Value)
       /\ LessEq(Value, Plus(floor, Divide(base, 2)))

(* ------------------------- write-once ledger keys ---------------------- *)
\* C31: with non-overlapping invocations of runMonitor, a row of alerts, once
\* written, stays as it is: no step removes it or rewrites it, so the status
\* and the response code stored for its key never change (the response body
\* is bound by the same INSERT OR REPLACE statement as the status and the
\* response code, and changes only when the row is rewritten).
C31_WriteOnceKeys ==
  [][\A r \in alerts :
       /\ r \in alerts'
       /\ \A w \in RowsFor(alerts', r.idempotency_key) :
            w.status = r.status /\ w.response_code = r.response_code]_vars

\* a key written SKIPPED for cooldown was met again by a later invocation,
\* after other rows were written, and its row is still the one first written
C31_Witness ==
  \E c \in Callers : \E n \in 1..Len(results[c]) : \E r \in alerts :
    /\ IsDuplicateOf(results[c][n], r)
    /\ r.status = "SKIPPED"
    /\ r.id + 1 < nextAlertId

\* C32: also when invocations of runMonitor overlap on a key, a row with
\* status SENT is never replaced by a SKIPPED or FAILED row: once a key
\* shows SENT, every later ledger shows it SENT.
C32_SentRowStays ==
  [][\A r \in alerts :
       r.status = "SENT" =>
         /\ RowsFor(alerts', r.idempotency_key) # {}
         /\ \A w \in RowsFor(alerts', r.idempotency_key) : w.status = "SENT"]_vars

(* --------------------- ledger writes on a stored key ------------------- *)
\* ledger writes made so far
CallsMade == IF "calls" \in DOMAIN calc THEN calc.calls ELSE 0

\* a ledger write that has completed: it returned its record or it threw
LedgerCall(fn, data, threw) ==
  [fn |-> fn, arguments |-> data, returned |-> TRUE, value |-> Some([threw |-> threw]),
   calls |-> CallsMade + 1]

\* recordAlert(db, data): INSERT OR REPLACE, then the row is read back and
\* "Failed to record alert" is thrown when it is missing
RecordAlertCall ==
  /\ CallsMade < MaxWrites
  /\ \E key \in LedgerKeys, status \in LedgerStatuses :
       LET data == AlertRow(key[1], -250, key[2], key, status, NONE) IN
       /\ alerts' = insertOrReplace(alerts, nextAlertId, data)
       /\ calc' = LedgerCall("recordAlert", data,
                             findAlertByIdempotency(alerts', data.idempotency_key) = {})
  /\ nextAlertId' = nextAlertId + 1
  /\ UNCHANGED <<symbols, alertsNew, nextAlertNewId, marketStep, sent, started,
                 pc, opts, queue, cur, results>>

\* createAlertNew(db, alert): INSERT, whose error propagates, then the row is
\* read back and "Failed to create alert" is thrown when it is missing
CreateAlertNewCall ==
  /\ CallsMade < MaxWrites
  /\ \E key \in LedgerKeys, status \in LedgerStatuses :
       LET data == AlertNewRow(key[1], "price_change_percent", key[3], key[2], key,
                               status, NONE)
           written == insertAlertNew(alertsNew, nextAlertNewId, data)
       IN /\ alertsNew' = written.table
          /\ nextAlertNewId' = IF written.ok THEN nextAlertNewId + 1 ELSE nextAlertNewId
          /\ calc' = LedgerCall("createAlertNew", data,
                                \/ ~written.ok
                                \/ findAlertNewByIdempotency(alertsNew', data.idempotency_key) = {})
  /\ UNCHANGED <<symbols, alerts, nextAlertId, marketStep, sent, started,
                 pc, opts, queue, cur, results>>

\* the two ledgers under any sequence of writes, each call with its outcome
NextLedgerCalls ==
  \/ RecordAlertCall
  \/ CreateAlertNewCall

SpecLedgerCalls == Init /\ [][NextLedgerCalls]_vars

\* the ledger table a write is made on
LedgerOf(fn, legacy, multi) == IF fn = "recordAlert" THEN legacy ELSE multi

\* C33: a ledger write whose idempotency key already has a row completes
\* without error and leaves exactly one row for the key, for recordAlert on
\* alerts and for createAlertNew on alerts_new.
C33_RewriteCompletes ==
  [][(/\ calc' # calc
      /\ RowsFor(LedgerOf(calc'.fn, alerts, alertsNew), calc'.arguments.idempotency_key) # {})
     => /\ ~calc'.value[1].threw
        /\ Cardinality(RowsFor(LedgerOf(calc'.fn, alerts', alertsNew'),
                               calc'.arguments.idempotency_key)) = 1]_vars

(* ------------------ the multi-indicator cooldown lookup ---------------- *)
\* the cooldown of a (symbol, indicator type) pair as its latest row decides it
StatedCooldown(symbol, indicatorType, windowEnd, cooldownMinutes) ==
  /\ cooldownMinutes # 0
  /\ \E l \in getLatestAlertNewForSymbol(D1, symbol, indicatorType).rows :
       windowEnd - l.window_end < cooldownMinutes * 60000

\* C34: checkCooldown is scoped to the (symbol, indicator type) pair: it
\* returns false when no cooldown is configured or the pair has no earlier
\* row in alerts_new, and otherwise returns true exactly when windowEnd minus
\* the pair's latest window_end is below cooldownMinutes * 60000; rows of the
\* symbol's other indicator types play no part.
C34_PairScopedCooldown ==
  \A c \in Callers :
    pc[c] = "m_cooldown" =>
      checkCooldown(cur[c].symbol, Trigger(c).indicatorType, cur[c].windowEnd,
                    TriggerCooldownMinutes(c))
        = [threw |-> FALSE,
           value |-> StatedCooldown(cur[c].symbol, Trigger(c).indicatorType,
                                    cur[c].windowEnd, TriggerCooldownMinutes(c))]

(* ------------------------- insufficient candles ------------------------ *)
\* the entries a step of caller c appends to its results
Appended(c) ==
  IF Len(results'[c]) > Len(results[c])
  THEN {results'[c][n] : n \in (Len(results[c]) + 1)..Len(results'[c])}
  ELSE {}

\* C35: fewer than 2 candles give no price window, and in both pipelines the
\* symbol whose fetch came back that short gets one SKIPPED entry with reason
\* insufficient_data, is left without any trigger, webhook or ledger row,
\* and the loop moves on to the next symbol.
C35_InsufficientData ==
  /\ \A klines \in KlineSequences :
       Len(klines) < 2 <=> enhancedKlinesToPriceWindow(klines) = NONE
  /\ [][\A c \in Callers :
          (/\ pc[c] \in {"fetch", "m_fetch"}
           /\ \E e \in Appended(c) : e.reason = "insufficient_data")
          => /\ Len(results'[c]) = Len(results[c]) + 1
             /\ \A e \in Appended(c) :
                  /\ e.symbol = Head(queue[c]).symbol
                  /\ e.status = "SKIPPED"
                  /\ ~e.triggered
             /\ cur'[c] = NoCur
             /\ queue'[c] = Tail(queue[c])
             /\ pc'[c] \in {"fetch", "m_fetch", "done"}
             /\ sent' = sent
             /\ alerts' = alerts
             /\ alertsNew' = alertsNew]_vars

\* a run whose second symbol came back with fewer than 2 candles, after the
\* first one was delivered
C35_Witness ==
  \E c \in Callers :
    /\ Len(results[c]) = 2
    /\ results[c][1].status = "SENT"
    /\ results[c][2].reason = "insufficient_data"
    /\ results[c][2].status = "SKIPPED"
    /\ \A d \in sent : d.key[1] # results[c][2].symbol

(* ------------------------ sendWebhook terminates ----------------------- *)
\* runMonitor with every POST a step of its own, where a POST that was made
\* is answered, fails or is aborted by its timeout, and the backoff wait that
\* follows it elapses
SpecWebhookLive ==
  /\ InitWith(SymbolTableOne)
  /\ [][NextWebhook]_vars
  /\ \A c \in Callers : WF_vars(WebhookAttempt(c))

\* POSTs of the sendWebhook call in progress that ended in a backoff wait
WaitsMade(c) == LoopVars(c).attempt

\* C36: a sendWebhook call returns: it makes at most MAX_RETRIES attempts and
\* at most MAX_RETRIES - 1 backoff waits, and then hands its result to the
\* caller.
C36_SendWebhookTerminates ==
  /\ [](\A c \in Callers :
          /\ pc[c] = "send" => WaitsMade(c) <= MaxRetries - 1
          /\ pc[c] = "record" => cur[c].webhookResult.attempts \in 1..MaxRetries)
  /\ \A c \in Callers : (pc[c] = "send") ~> (pc[c] = "record")

\* a call that waited after every attempt but the last and returned a
\* success from its last one
C36_Witness ==
  \E c \in Callers :
    /\ pc[c] = "record"
    /\ cur[c].webhookResult.attempts = MaxRetries
    /\ cur[c].webhookResult.success
    /\ cur[c].attempt = MaxRetries - 1

(* --------------------------- fetchKrakenOHLC --------------------------- *)
\* what one GET of the OHLC endpoint comes to: the candles parsed from a well
\* formed answer, or the error thrown inside the try block
KrakenCandles(count) == [ok |-> TRUE, candles |-> count, error |-> NONE]
KrakenError(message) == [ok |-> FALSE, candles |-> 0, error |-> Some(message)]

\* 1 or 2 candles; a non-2xx status; an API-level error; a malformed entry;
\* a transport error; the AbortController firing after timeoutMs
KrakenOutcomes ==
  {KrakenCandles(1), KrakenCandles(2),
   KrakenError("Kraken API responded with status 503"),
   KrakenError("Kraken API error: EQuery:Invalid asset pair"),
   KrakenError("Malformed Kraken OHLC entry"),
   KrakenError("fetch failed"),
   KrakenError("The operation was aborted")}

\* which fetch of which invocation a call serves
KrakenCallId(c) == <<started, Len(queue[c])>>

\* attempt, lastError and the answers so far of the fetchKrakenOHLC call that
\* serves the symbol in hand
KrakenCall(c) ==
  IF calc.fn = "fetchKrakenOHLC" /\ calc.call = KrakenCallId(c) THEN calc
  ELSE [fn |-> "fetchKrakenOHLC", call |-> KrakenCallId(c),
        arguments |-> [symbol |-> Head(queue[c]).symbol, maxRetries |-> maxRetries],
        attempt |-> 0, outcomes |-> <<>>, lastError |-> NONE,
        returned |-> FALSE, value |-> NONE]

\* what the call gave its caller: candles, or the error it threw
KrakenResult(threw, candles, error) == [threw |-> threw, candles |-> candles, error |-> error]

\* one iteration of fetchKrakenOHLC's while loop inside runMonitor's await on
\* fetchEnhancedKlines: the GET and its outcome, then the return of the
\* candles, the wait before the next attempt, or, after the last attempt,
\* throw lastError, which fetchEnhancedKlines rethrows into runMonitor's catch
KrakenAttempt(c) ==
  /\ pc[c] = "fetch"
  /\ ~KrakenCall(c).returned
  /\ KrakenCall(c).attempt < KrakenCall(c).arguments.maxRetries
  /\ \E outcome \in KrakenOutcomes :
       LET call == KrakenCall(c)
           attempt == call.attempt + 1
           made == [call EXCEPT !.attempt = attempt, !.outcomes = Append(@, outcome)]
           lastError == outcome.error
       IN IF outcome.ok
          THEN /\ calc' = [made EXCEPT !.returned = TRUE,
                                       !.value = Some(KrakenResult(FALSE, outcome.candles, NONE))]
               /\ UNCHANGED ProgramVars
          ELSE IF attempt < call.arguments.maxRetries
          THEN /\ calc' = [made EXCEPT !.lastError = lastError]
               /\ UNCHANGED ProgramVars
          ELSE /\ calc' = [made EXCEPT !.lastError = lastError, !.returned = TRUE,
                                       !.value = Some(KrakenResult(TRUE, 0, lastError))]
               /\ CatchSymbolFailed(c)
               /\ UNCHANGED <<symbols, alerts, nextAlertId, alertsNew, nextAlertNewId,
                              marketStep, sent, started, opts>>

\* the call for the symbol in hand has returned its candles
KrakenCandlesBack(c) ==
  /\ calc.fn = "fetchKrakenOHLC"
  /\ calc.call = KrakenCallId(c)
  /\ calc.returned
  /\ ~Value.threw

\* runMonitor with the candle fetch taken one GET at a time
MonitorStepByGet(c) ==
  \/ KrakenAttempt(c)
  \/ (KrakenCandlesBack(c) /\ Value.candles < 2 /\ FetchInsufficient(c))
  \/ (KrakenCandlesBack(c) /\ Value.candles >= 2 /\ FetchWindow(c))
  \/ FindExisting(c)
  \/ CheckCooldown(c)
  \/ RecordSkipped(c)
  \/ SendWebhook(c)
  \/ RecordDelivery(c)
  \/ Return(c)

\* non-overlapping invocations of runMonitor, every GET of every candle fetch
\* a step of its own
NextKraken ==
  \/ (NoneRunning /\ CronStart)
  \/ (NoneRunning /\ ManualStart)
  \/ \E c \in Callers : MonitorStepByGet(c)
  \/ MarketTick

SpecKraken == InitWith(SymbolTableOne) /\ [][NextKraken]_vars

\* C37: fetchKrakenOHLC makes at most maxRetries attempts; a success is its
\* last attempt and its candles are what the call returns; when every
\* attempt failed the call throws the last attempt's error, and in that step
\* runMonitor reports the symbol FAILED (enhanced_fetch_error) and touches
\* neither the webhook nor the ledger.
C37_KrakenRetries ==
  /\ [](calc.fn = "fetchKrakenOHLC" =>
          LET made == calc.attempt IN
          /\ made \in 1..maxRetries
          /\ Len(calc.outcomes) = made
          /\ \A n \in 1..(made - 1) : ~calc.outcomes[n].ok
          /\ calc.returned <=> (calc.outcomes[made].ok \/ made = maxRetries)
          /\ (calc.returned /\ calc.outcomes[made].ok) =>
               Value = KrakenResult(FALSE, calc.outcomes[made].candles, NONE)
          /\ (calc.returned /\ ~calc.outcomes[made].ok) =>
               Value = KrakenResult(TRUE, 0, calc.outcomes[made].error))
  /\ [][\A c \in Callers :
          (/\ pc[c] = "fetch"
           /\ calc' # calc
           /\ calc'.returned
           /\ calc'.value[1].threw)
          => /\ results'[c] = Append(results[c],
                   Result(normalizeSymbol(Head(queue[c]).symbol), "FAILED", FALSE, NONE, NONE,
                          "enhanced_fetch_error"))
             /\ queue'[c] = Tail(queue[c])
             /\ sent' = sent
             /\ alerts' = alerts]_vars

\* a fetch that was answered 503, then timed out on its last attempt: the
\* abort error was thrown and the symbol is reported FAILED
C37_Witness ==
  /\ calc.fn = "fetchKrakenOHLC"
  /\ calc.attempt = maxRetries
  /\ calc.outcomes[1] = KrakenError("Kraken API responded with status 503")
  /\ calc.returned
  /\ Value = KrakenResult(TRUE, 0, Some("The operation was aborted"))
  /\ \E c \in Callers : \E n \in 1..Len(results[c]) :
       results[c][n].status = "FAILED" /\ results[c][n].reason = "enhanced_fetch_error"

(* --------------------- triggered and status agree ---------------------- *)
\* C38: in every result entry of runMonitor and of runMultiIndicatorMonitor,
\* delivered, duplicate, skipped or failed, triggered is true exactly when
\* status is SENT.
C38_TriggeredIffSent ==
  \A c \in Callers : \A n \in 1..Len(results[c]) :
    /\ results[c][n].status \in {"SENT", "SKIPPED", "FAILED"}
    /\ results[c][n].triggered <=> (results[c][n].status = "SENT")

\* a run about to return a delivered entry together with the duplicate of a
\* FAILED row
C38_Witness ==
  \E c \in Callers :
    /\ pc[c] = "done"
    /\ \E n, m \in 1..Len(results[c]) :
         /\ results[c][n].status = "SENT" /\ results[c][n].triggered
         /\ results[c][m].status = "FAILED" /\ ~results[c][m].triggered
         /\ results[c][m].reason = "duplicate"

(* ------------------- duplicates in the requested list ------------------ *)
\* the symbols still to process, the one in hand first
Queued(c) == [n \in 1..Len(queue[c]) |-> normalizeSymbol(queue[c][n].symbol)]

\* the queue positions whose symbol has not been fetched yet
Unfetched(c) ==
  {n \in 1..Len(queue[c]) : n > 1 \/ pc[c] \in {"fetch", "m_fetch"}}

\* C39: whatever duplicates and case variants the requested list holds, the
\* symbols an invocation works through are upper-cased and distinct; a symbol
\* still to be fetched has no entry yet, so each is fetched and evaluated at
\* most once per invocation; runMonitor reports a symbol at most once and
\* makes its sendWebhook call only for a symbol it has no entry for.
C39_EachSymbolOnce ==
  /\ [](\A c \in Callers :
          /\ \A n, m \in 1..Len(queue[c]) : n # m => Queued(c)[n] # Queued(c)[m]
          /\ \A n \in 1..Len(queue[c]) : queue[c][n].symbol = normalizeSymbol(queue[c][n].symbol)
          /\ \A n \in Unfetched(c) : EntriesFor(c, Queued(c)[n]) = {}
          /\ \A n \in 1..Len(results[c]) :
               "indicatorType" \notin DOMAIN results[c][n] =>
                 Cardinality(EntriesFor(c, results[c][n].symbol)) = 1)
  /\ [][\A c \in Callers :
          (pc[c] = "send" /\ sent' # sent) =>
            /\ EntriesFor(c, cur[c].symbol) = {}
            /\ Cardinality(sent') = Cardinality(sent) + 1]_vars

\* a manual run asked for btcusdt and BTCUSDT has delivered BTCUSDT, once
C39_Witness ==
  \E c \in Callers :
    /\ \E n, m \in 1..Len(opts[c].symbols) :
         /\ n # m
         /\ opts[c].symbols[n] # opts[c].symbols[m]
         /\ normalizeSymbol(opts[c].symbols[n]) = normalizeSymbol(opts[c].symbols[m])
         /\ \E k \in 1..Len(results[c]) :
              /\ results[c][k].symbol = normalizeSymbol(opts[c].symbols[n])
              /\ results[c][k].status = "SENT"
              /\ "indicatorType" \notin DOMAIN results[c][k]
    /\ pc[c] = "done"

(* ------------------------------ one cron tick ------------------------- *)
\* a task of the scheduled handler rejects before its loop (loadEnv, the
\* settings or the symbol lookup throws): the task's catch logs it and the
\* task is over with no results
TaskThrows(c) ==
  /\ pc[c] = "idle"
  /\ started < MaxInvocations
  /\ started' = started + 1
  /\ UNCHANGED <<calc, symbols, alerts, nextAlertId, alertsNew, nextAlertNewId, marketStep,
                 sent, pc, opts, queue, cur, results>>

\* the scheduled handler has launched runMonitor and not yet the
\* multi-indicator task of the same tick
LegacyLaunched == started % 2 = 1

\* scheduled(): the runMonitor task is launched first
TickStartLegacy ==
  /\ NoneRunning
  /\ ~LegacyLaunched
  /\ (CronStart \/ TaskThrows("cron"))

\* scheduled(): after the configs were read, the runMultiIndicatorMonitor task
\* is launched while the runMonitor task is under way
TickStartMulti ==
  /\ LegacyLaunched
  /\ (StartMulti("cronMulti", <<>>) \/ TaskThrows("cronMulti"))

\* a step of either task of the tick, a ledger statement that throws included
TaskStep(c) ==
  \/ MonitorStep(c)
  \/ MultiStep(c)
  \/ LedgerFails(c)
  \/ MultiLedgerFails(c)

NextCronTick ==
  \/ TickStartLegacy
  \/ TickStartMulti
  \/ \E c \in Callers : TaskStep(c)
  \/ MarketTick

\* cron ticks whose two tasks interleave at every await
SpecCronTick == InitWith(SymbolTableNoCooldown) /\ [][NextCronTick]_vars

LegacyPcs == {"fetch", "find", "latest", "recordSkipped", "send", "record"}

\* the loop locals of a task
Locals(c) == <<pc[c], opts[c], queue[c], cur[c], results[c]>>

\* the step of task c went through its catch block
Threw(c) ==
  /\ Len(results'[c]) > Len(results[c])
  /\ LastEntry(results'[c]).reason \in {"enhanced_fetch_error", "monitor_error"}

\* C40: in a cron tick runMonitor writes only alerts and
\* runMultiIndicatorMonitor only alerts_new; the idempotency and cooldown
\* decisions of runMonitor follow from alerts alone and those of
\* runMultiIndicatorMonitor from alerts_new alone, whatever the other task
\* has written in between; a step of one task, a thrown error included,
\* leaves the other task's loop where it was, free to go on.
C40_DisjointLedgers ==
  /\ [][\A c \in Callers :
          Locals(c)' # Locals(c) =>
            /\ pc[c] \in LegacyPcs => (alertsNew' = alertsNew /\ nextAlertNewId' = nextAlertNewId)
            /\ InTriggerLoop(c) \/ pc[c] = "m_fetch" =>
                 (alerts' = alerts /\ nextAlertId' = nextAlertId)
            /\ (pc[c] = "find" /\ ~Threw(c)) =>
                 (pc'[c] = "latest" <=> RowsFor(alerts, cur[c].idempotencyKey) = {})
            /\ (pc[c] = "latest" /\ ~Threw(c)) =>
                 (pc'[c] = "recordSkipped" <=>
                    \E l \in getLatestAlertForSymbol(alerts, cur[c].symbol) :
                      isWithinCooldown(l.window_end, cur[c].windowEnd, cur[c].cooldownMinutes))
            /\ (pc[c] = "m_find" /\ ~Threw(c)) =>
                 (pc'[c] = "m_send" <=> RowsFor(alertsNew, TriggerKey(c)) = {})
            /\ \A d \in Callers \ {c} : Locals(d)' = Locals(d)]_vars

\* the legacy task of a tick holds a trigger it has not yet recorded, while
\* alerts_new has been written and the multi-indicator task has reported a
\* symbol FAILED after a thrown error
C40_Witness ==
  /\ pc["cron"] \in {"send", "record"}
  /\ alertsNew # {}
  /\ \E n \in 1..Len(results["cronMulti"]) :
       results["cronMulti"][n].reason = "monitor_error"

====
